---- MODULE Spec2Model ----
(***************************************************************************)
(* A model of the AgroInsight recommendation pipeline: the regional        *)
(* weather simulator (agents/weather_station.py), the farming and market   *)
(* engines (agents/farmer_advisor.py, agents/market_researcher.py), the    *)
(* repository (db/database.py) and the synthesis orchestrator              *)
(* (models/multi_agent_system.py).                                         *)
(*                                                                         *)
(* Numbers are fixed point.  Weather quantities computed inside the        *)
(* simulator are in thousandths (of a degree, a millimetre, a percent, a  *)
(* km/h, a unit of trend); the values the simulator returns are rounded    *)
(* with round(x, 1) and are kept in tenths.  A draw of random.random() is  *)
(* kept in hundredths (floor(100 * r)), so r < 0.05 is draw < 5.           *)
(* Probabilities are in hundredths, season modifiers and the seasonal      *)
(* factor in tenths.                                                       *)
(***************************************************************************)
EXTENDS Integers, Sequences, FiniteSets, TLC

VARIABLES
    rng,        \* position in the stream of the process-wide generator
    today,      \* the date the clock shows (days since 1 January of BaseYear)
    seeded,     \* no draw has been made since the generator was last seeded
    last,       \* the call the caller is holding the result of (NoCall: none)
    prev,       \* the forecast call made before `last` with the same region and days
    store,      \* the rows of the recommendations table, oldest first
    market_data,\* the market table the market engine loaded when constructed
    use_llm,    \* the text generator was reachable when the system was constructed
    rng_absent, \* the position the generator would be in after the same calls
                \* on a system constructed with the text generator absent
    state,      \* the state map (BaseAgent.state) of each of the three engines
    running     \* the generate_forecast call each request thread is inside of

vars == <<rng, today, seeded, last, prev, store, market_data, use_llm, rng_absent, state, running>>

(***************************************************************************)
(* Bounds of the model.                                                    *)
(***************************************************************************)
\* a weather call is issued only while the generator has made at most this
\* many draws since it was seeded
MaxDrawnWeather == 30
\* midnights that may pass in a behaviour
MaxElapsed == 1
\* a synthesis is requested only while the generator has made at most this
\* many draws since it was seeded
MaxDrawnSynth == 140
\* and while the recommendations table holds at most this many rows
MaxStored == 0
\* the same bound for a session of calls on one system, where a synthesis is
\* repeated on a table that holds the rows of an earlier one
MaxStoredSession == 27
\* longest forecast asked of the weather operations directly
MaxDays == 3
\* latest iteration of a forecast loop before which midnight may pass
MaxMidnight == 2

Max(a, b) == IF a >= b THEN a ELSE b
Min(a, b) == IF a <= b THEN a ELSE b

(***************************************************************************)
(* The generator: random.seed(42) followed by random.random() calls.       *)
(* MT42[i] is floor(100 * r) for the i-th value CPython's generator yields *)
(* after seed 42.                                                          *)
(***************************************************************************)
MT42 ==
    << 63,  2, 27, 22, 73, 67, 89,  8, 42,  2, 21, 50,  2, 19, 64, 54, 22, 58, 80,  0,
       80, 69, 34, 15, 95, 33,  9,  9, 84, 60, 80, 72, 53, 97, 37, 55, 82, 61, 86, 57,
       70,  4, 22, 28,  7, 23, 10, 27, 63, 36, 37, 20, 26, 93, 64, 60, 17, 72, 16, 37,
       98, 63, 55, 68, 84, 77, 22,  3, 31, 26, 21, 94, 87, 31, 65, 39, 91, 45, 26, 24,
       56, 26, 58, 89, 39, 21, 99, 50,  9,  4, 10, 62, 79, 42,  6, 38, 99, 52, 97, 86,
        1, 72, 68, 53, 26, 64, 11, 43, 45, 95, 87, 26, 50, 17, 91, 87, 29, 63, 60, 15,
       76, 53, 77, 53,  0, 32,  1, 92, 87, 83, 30,  5, 87, 94,  8, 48,  6, 76, 76, 12,
       47, 54, 26, 87, 42, 21, 53, 72, 20, 31, 99, 64, 43, 51, 12, 22, 33, 58, 23, 22,
        7, 63, 22, 90, 85,  7, 23, 66, 21, 13, 93, 57, 47, 78, 80, 19,  9, 43, 42, 46,
       72, 67, 98,  9, 40, 33, 86, 24, 19, 44, 42, 27, 24, 92, 44, 86, 55,  5, 99, 83,
       96, 92, 84, 16, 48, 21, 40,  5, 37, 98, 26, 78, 45, 42, 95, 99, 55, 71, 15, 29,
       96, 57, 54, 74,  5, 58, 50, 85, 15, 96,  8, 18, 59, 67, 23, 11, 89, 24, 59, 61,
       41, 58, 52, 93, 20, 71, 23, 39, 67, 29, 31, 75,  7, 45, 99, 99,  7, 21, 26, 93,
       88, 87, 36, 15, 83, 70, 61, 98, 65,  0, 81, 29, 66, 93, 13, 11, 10, 55, 27, 60,
       71, 20, 63, 26, 48, 90, 84,  9, 42, 27,  0, 77, 63, 26, 74, 55, 42,  0,  7, 88,
       90, 54, 83, 58, 14, 12, 30, 89, 79, 86, 89, 21, 24, 10, 78, 88, 40, 62, 15, 92,
       86, 97, 81, 88,  2, 73, 33, 93, 80, 86, 81, 26, 78, 10, 87, 85, 22, 81, 46, 30,
       79, 22,  2, 19, 32, 86, 96, 27, 64, 39, 98, 53, 93, 11, 97, 17, 96, 26, 10, 43,
       72, 31, 60, 51, 38, 57, 25, 70,  0, 92, 53, 71, 74, 67, 36,  6, 66, 33, 31, 84,
       71, 30, 30, 40, 40, 29, 12, 42, 94, 67, 90, 61, 30, 54,  0, 28, 42, 57, 65, 46,
       44, 21, 47, 90, 79, 16,  8, 51, 63, 33, 81, 75, 67, 22, 19,  2, 24, 47, 84,  7,
       41, 62, 19, 69, 49, 24, 65,  0, 75, 77, 10, 42, 17, 95, 51,  5, 24, 84, 45, 80,
       66, 98, 59, 95, 89, 61, 71, 50, 83, 54, 89, 74, 47, 25, 24, 63, 76, 52, 62, 27,
        7, 28, 27, 31, 54, 13, 23, 69, 70,  6, 40, 54, 41, 20, 42, 90, 58, 69, 85, 76,
       38,  0, 35, 75, 85, 95, 41, 74, 54, 60, 22, 21, 43,  2, 33, 67, 40, 16, 46, 12 >>

\* random.seed(42): the generator is back at the start of its stream
Seed42 == 0

\* random.random() in generator state pos (the state after it is pos + 1)
Draw(pos) == MT42[(pos % Len(MT42)) + 1]

(***************************************************************************)
(* The calendar: datetime.now(), timedelta(days = n), date.month and       *)
(* strftime("%Y-%m-%d").  BaseYear and the year after it are not leap.     *)
(***************************************************************************)
BaseYear == 2026

CumDays == <<0, 31, 59, 90, 120, 151, 181, 212, 243, 273, 304, 334, 365>>

YearOf(date) == BaseYear + (date \div 365)

MonthOf(date) ==
    LET doy == date % 365
    IN  CHOOSE m \in 1..12 : CumDays[m] <= doy /\ doy < CumDays[m + 1]

DayOf(date) == (date % 365) - CumDays[MonthOf(date)] + 1

\* date.strftime("%Y-%m-%d"): the three fields, compared field by field
Ymd(date) == <<YearOf(date), MonthOf(date), DayOf(date)>>

\* the order of two "%Y-%m-%d" strings
YmdLess(a, b) ==
    \/ a[1] < b[1]
    \/ a[1] = b[1] /\ a[2] < b[2]
    \/ a[1] = b[1] /\ a[2] = b[2] /\ a[3] < b[3]

\* the dates on which a behaviour may start: 28 February and 31 August
StartDates == {58, 242}

(***************************************************************************)
(* WeatherStation.generate_weather_patterns                                *)
(***************************************************************************)
regions ==
    [north   |-> [base_temp |-> 15, temp_variation |-> 8, base_rainfall |-> 5,
                  rainfall_variation |-> 15, seasonal_factor |-> 8,
                  drought_probability |-> 5, flood_probability |-> 5],
     central |-> [base_temp |-> 22, temp_variation |-> 6, base_rainfall |-> 3,
                  rainfall_variation |-> 10, seasonal_factor |-> 6,
                  drought_probability |-> 8, flood_probability |-> 3],
     south   |-> [base_temp |-> 28, temp_variation |-> 5, base_rainfall |-> 2,
                  rainfall_variation |-> 8, seasonal_factor |-> 5,
                  drought_probability |-> 12, flood_probability |-> 2]]

seasons ==
    [spring |-> [temp_modifier |-> 0, rainfall_modifier |-> 12,
                 humidity_modifier |-> 11, monthly_range |-> {3, 4, 5}],
     summer |-> [temp_modifier |-> 12, rainfall_modifier |-> 8,
                 humidity_modifier |-> 9, monthly_range |-> {6, 7, 8}],
     fall   |-> [temp_modifier |-> 0, rainfall_modifier |-> 10,
                 humidity_modifier |-> 10, monthly_range |-> {9, 10, 11}],
     winter |-> [temp_modifier |-> -12, rainfall_modifier |-> 11,
                 humidity_modifier |-> 12, monthly_range |-> {12, 1, 2}]]

\* the order in which the seasons dictionary is walked
SeasonOrder == <<"spring", "summer", "fall", "winter">>

\* the region names a caller may pass; "east" is not a key of regions
RegionNames == {"north", "central", "south", "east"}

\* WeatherStation.get_current_season
get_current_season(date) ==
    LET month == MonthOf(date)
        hits  == {i \in 1..Len(SeasonOrder) : month \in seasons[SeasonOrder[i]].monthly_range}
    IN  IF hits = {} THEN "spring"
        ELSE SeasonOrder[CHOOSE i \in hits : \A j \in hits : i <= j]

\* round(x, 1) of a value in thousandths, in tenths
Round1(x) == (x + 50) \div 100

\* the ladder that turns rainfall and temperature into a condition tag
ConditionLadder(params, rainfall, temperature) ==
    IF rainfall > 1000 * params.rainfall_variation THEN "Heavy Rain"
    ELSE IF rainfall > 500 * params.rainfall_variation THEN "Light Rain"
    ELSE IF temperature > 1000 * (params.base_temp + params.temp_variation) THEN "Hot"
    ELSE IF temperature < 1000 * (params.base_temp - params.temp_variation) THEN "Cold"
    ELSE "Clear"

\* WeatherStation.generate_current_weather: the sample and the generator state after
generate_current_weather(region, pos, date) ==
    LET params          == regions[region]
        current_season  == get_current_season(date)
        season_params   == seasons[current_season]
        temp_base       == 1000 * params.base_temp
                           + 10 * season_params.temp_modifier * params.seasonal_factor
        temp_variation  == params.temp_variation * (800 + 4 * Draw(pos))
        temperature     == temp_base + ((20 * Draw(pos + 1) - 1000) * temp_variation) \div 1000
        rainfall_base   == 100 * params.base_rainfall * season_params.rainfall_modifier
        rainfall0       == (Draw(pos + 2) * params.rainfall_variation * rainfall_base) \div 100
        rainfall        == IF Draw(pos + 3) < 60 THEN (rainfall0 * 3) \div 10 ELSE rainfall0
        humidity_base   == 60000 + 2000 * season_params.humidity_modifier
        humidity        == humidity_base + (200 * Draw(pos + 4) - 10000)
        wind_speed      == 5000 + 150 * Draw(pos + 5)
    IN  [weather |-> [timestamp        |-> Ymd(date),
                      season           |-> current_season,
                      temperature_c    |-> Round1(temperature),
                      rainfall_mm      |-> Round1(rainfall),
                      humidity_percent |-> Round1(humidity),
                      wind_speed_kph   |-> Round1(wind_speed),
                      condition        |-> ConditionLadder(params, rainfall, temperature)],
         pos |-> pos + 6]

\* a trend that adds the new draw to the whole of the previous trend
update_trend_on_whole(trend, draw, persistence) ==
    trend + ((10 - persistence) * (20 * draw - 1000)) \div 10

\* trend = trend * persistence + (random.random() * 2 - 1) * (1 - persistence),
\* the persistence in tenths and the trend in thousandths
update_trend(trend, draw, persistence) ==
    (persistence * trend + (10 - persistence) * (20 * draw - 1000)) \div 10

\* the extreme weather events with a flood that leaves the tag to the ladder
extreme_weather_events_flood_by_ladder(params, drought, flood, rainfall0, temperature0) ==
    IF drought
    THEN [rainfall |-> 0, temperature |-> temperature0 + 3000,
          condition |-> "Drought Conditions"]
    ELSE IF flood
    THEN [rainfall |-> 2000 * params.rainfall_variation, temperature |-> temperature0,
          condition |-> ConditionLadder(params, 2000 * params.rainfall_variation, temperature0)]
    ELSE [rainfall |-> rainfall0, temperature |-> temperature0,
          condition |-> ConditionLadder(params, rainfall0, temperature0)]

\* the extreme weather events of an iteration of generate_forecast, given the
\* outcome of the two rolls and the rainfall and temperature derived from the
\* trends: a drought sets the rainfall to 0 and adds 3 degrees, a flood sets
\* the rainfall to twice the variation and leaves the temperature
extreme_weather_events(params, drought, flood, rainfall0, temperature0) ==
    IF drought
    THEN [rainfall |-> 0, temperature |-> temperature0 + 3000,
          condition |-> "Drought Conditions"]
    ELSE IF flood
    THEN [rainfall |-> 2000 * params.rainfall_variation, temperature |-> temperature0,
          condition |-> "Flood Warning"]
    ELSE [rainfall |-> rainfall0, temperature |-> temperature0,
          condition |-> ConditionLadder(params, rainfall0, temperature0)]

\* the date datetime.now() shows in iteration `day` of a call that started on
\* `date`, when midnight passes just before iteration `midnight` (0: not at all)
NowAt(date, day, midnight) ==
    IF midnight # 0 /\ day >= midnight THEN date + 1 ELSE date

\* one iteration of the loop of generate_forecast; `loop` holds the list,
\* the two trends and the generator state the iteration starts with
ForecastDay(region, day, now, loop) ==
    LET params         == regions[region]
        pos            == loop.pos
        temp_trend0    == loop.temp_trend
        rain_trend0    == loop.rain_trend
        date           == now + day
        season         == get_current_season(date)
        season_params  == seasons[season]
        temp_trend     == update_trend(temp_trend0, Draw(pos), 5)
        temp_base      == 1000 * params.base_temp
                          + 10 * season_params.temp_modifier * params.seasonal_factor
        temp_variation == params.temp_variation * (800 + 4 * Draw(pos + 1))
        temperature0   == temp_base + (temp_trend * temp_variation) \div 1000
        rain_trend     == update_trend(rain_trend0, Draw(pos + 2), 3)
        rainfall_base  == 100 * params.base_rainfall * season_params.rainfall_modifier
        rainfall0      == Max(0, rainfall_base + rain_trend * params.rainfall_variation)
        drought        == Draw(pos + 3) < params.drought_probability
        flood          == ~drought /\ Draw(pos + 4) < params.flood_probability
        posWind        == IF drought THEN pos + 4 ELSE pos + 5
        event          == extreme_weather_events(params, drought, flood, rainfall0, temperature0)
        rainfall       == event.rainfall
        temperature    == event.temperature
        condition      == event.condition
        humidity_base  == 60000 + 2000 * season_params.humidity_modifier
        humidity       == humidity_base + 10 * rain_trend
        wind_speed     == 5000 + 150 * Draw(posWind)
    IN  [forecast   |-> Append(loop.forecast,
                               [date               |-> Ymd(date),
                                day                |-> day,
                                season             |-> season,
                                temperature_high_c |-> Round1(temperature + temp_variation \div 2),
                                temperature_low_c  |-> Round1(temperature - temp_variation \div 2),
                                rainfall_mm        |-> Round1(rainfall),
                                humidity_percent   |-> Round1(humidity),
                                wind_speed_kph     |-> Round1(wind_speed),
                                condition          |-> condition]),
         temp_trend |-> temp_trend,
         rain_trend |-> rain_trend,
         pos        |-> posWind + 1,
         \* the locals of the iteration: the two rolls, the rainfall and the
         \* temperature derived from the trends, the width of the band
         rolls      |-> [drought |-> drought, flood |-> flood],
         derived    |-> [rainfall |-> rainfall0, temperature |-> temperature0,
                         temp_variation |-> temp_variation]]

\* the loop state before the first iteration: forecast = [], both trends 0
LoopStart(pos) ==
    [forecast |-> << >>, temp_trend |-> 0, rain_trend |-> 0, pos |-> pos,
     rolls |-> [drought |-> FALSE, flood |-> FALSE],
     derived |-> [rainfall |-> 0, temperature |-> 0, temp_variation |-> 0]]

RECURSIVE ForecastLoop(_, _, _, _, _, _)
\* for day in range(day, days + 1): the list, the trends and the generator
\* state the loop ends with
ForecastLoop(region, day, days, date, midnight, loop) ==
    IF day > days
    THEN loop
    ELSE ForecastLoop(region, day + 1, days, date, midnight,
                      ForecastDay(region, day, NowAt(date, day, midnight), loop))

\* generate_forecast with the loop written range(1, days): one sample short
generate_forecast_one_short(region, days, pos, date, midnight) ==
    ForecastLoop(region, 1, days - 1, date, midnight,
                 LoopStart(generate_current_weather(region, pos, date).pos))

\* WeatherStation.generate_forecast for a region of the table: the list it
\* returns and the generator state after
generate_forecast(region, days, pos, date, midnight) ==
    ForecastLoop(region, 1, days, date, midnight,
                 LoopStart(generate_current_weather(region, pos, date).pos))

\* one iteration of the loop of generate_historical_data
HistoricalDay(region, day, end_date, pos) ==
    LET params         == regions[region]
        date           == end_date - day
        season         == get_current_season(date)
        season_params  == seasons[season]
        temp_base      == 1000 * params.base_temp
                          + 10 * season_params.temp_modifier * params.seasonal_factor
        temp_variation == params.temp_variation * (800 + 4 * Draw(pos))
        temperature    == temp_base + ((20 * Draw(pos + 1) - 1000) * temp_variation) \div 1000
        rainfall_base  == 100 * params.base_rainfall * season_params.rainfall_modifier
        rainfall       == (Draw(pos + 2) * params.rainfall_variation * rainfall_base) \div 100
        humidity_base  == 60000 + 2000 * season_params.humidity_modifier
        humidity       == humidity_base + (200 * Draw(pos + 3) - 10000)
        wind_speed     == 5000 + 150 * Draw(pos + 4)
    IN  [date               |-> Ymd(date),
         season             |-> season,
         temperature_high_c |-> Round1(temperature + temp_variation \div 2),
         temperature_low_c  |-> Round1(temperature - temp_variation \div 2),
         rainfall_mm        |-> Round1(rainfall),
         humidity_percent   |-> Round1(humidity),
         wind_speed_kph     |-> Round1(wind_speed),
         condition          |-> ConditionLadder(params, rainfall, temperature)]

\* the days parameter of generate_historical_data
HistoricalDays == 30

\* WeatherStation.generate_historical_data(region): the last 30 days, going
\* back from yesterday, five draws a day
generate_historical_data(region, pos, date) ==
    [historical_data |-> [i \in 1..HistoricalDays |->
                             HistoricalDay(region, i - 1, date - 1, pos + 5 * (i - 1))],
     pos |-> pos + 5 * HistoricalDays]

RECURSIVE SumOf(_, _)
\* sum(day[field] for day in forecast)
SumOf(forecast, field) ==
    IF forecast = <<>> THEN 0
    ELSE Head(forecast)[field] + SumOf(Tail(forecast), field)

\* the one recommendation assess_agricultural_impact adds for a forecast day
ExtremeRec(day) ==
    IF day.condition = "Drought Conditions"
    THEN <<[issue |-> <<"Drought conditions forecasted on", day.date>>,
            action |-> <<"Implement emergency water conservation measures and consider drought-resistant crops">>,
            sustainability_impact |-> 25, confidence |-> 70]>>
    ELSE IF day.condition = "Flood Warning"
    THEN <<[issue |-> <<"Flood warning for", day.date>>,
            action |-> <<"Prepare flood defenses and ensure drainage systems are clear">>,
            sustainability_impact |-> 20, confidence |-> 70]>>
    ELSE <<>>

RECURSIVE ExtremeRecs(_)
ExtremeRecs(forecast) ==
    IF forecast = <<>> THEN <<>>
    ELSE ExtremeRec(Head(forecast)) \o ExtremeRecs(Tail(forecast))

\* the season-specific item assess_agricultural_impact ends with
SeasonImpactRec(current_season) ==
    CASE current_season = "spring" ->
           <<[issue |-> <<"Spring planting considerations">>,
              action |-> <<"Ensure soil has proper temperature and moisture before planting to optimize germination">>,
              sustainability_impact |-> 15, confidence |-> 90]>>
      [] current_season = "summer" ->
           <<[issue |-> <<"Summer heat management">>,
              action |-> <<"Monitor soil moisture levels closely and implement shading or mulching to reduce evaporation">>,
              sustainability_impact |-> 18, confidence |-> 85]>>
      [] current_season = "fall" ->
           <<[issue |-> <<"Fall harvest timing">>,
              action |-> <<"Monitor forecasts for early frost and plan harvest accordingly">>,
              sustainability_impact |-> 16, confidence |-> 80]>>
      [] current_season = "winter" ->
           <<[issue |-> <<"Winter soil management">>,
              action |-> <<"Consider cover crops to protect soil from erosion and improve structure">>,
              sustainability_impact |-> 20, confidence |-> 85]>>
      [] OTHER -> <<>>

\* WeatherStation.assess_agricultural_impact.  The mean of the forecast highs
\* divides by len(forecast): with an empty forecast the division raises.
\* avg_temp > 30 is sum > 30 * len (in tenths: 300 * len).
assess_agricultural_impact(current_weather, forecast, region, date) ==
    IF Len(forecast) = 0
    THEN [raised |-> TRUE, error |-> "ZeroDivisionError"]
    ELSE
    LET n            == Len(forecast)
        sum_temp     == SumOf(forecast, "temperature_high_c")
        avg_rainfall == SumOf(forecast, "rainfall_mm")
        temperature_impact ==
            IF sum_temp > 300 * n THEN "negative"
            ELSE IF sum_temp < 100 * n THEN "negative"
            ELSE IF 150 * n <= sum_temp /\ sum_temp <= 280 * n THEN "positive"
            ELSE "neutral"
        temp_recs ==
            IF sum_temp > 300 * n
            THEN <<[issue |-> <<"High temperatures forecasted">>,
                    action |-> <<"Implement shade structures and increase irrigation frequency">>,
                    sustainability_impact |-> 18, confidence |-> 80]>>
            ELSE IF sum_temp < 100 * n
            THEN <<[issue |-> <<"Low temperatures forecasted">>,
                    action |-> <<"Consider using crop covers or delaying planting">>,
                    sustainability_impact |-> 15, confidence |-> 80]>>
            ELSE <<>>
        rainfall_impact ==
            IF avg_rainfall < 100 THEN "negative"
            ELSE IF avg_rainfall > 1000 THEN "negative"
            ELSE IF 200 <= avg_rainfall /\ avg_rainfall <= 600 THEN "positive"
            ELSE "neutral"
        rain_recs ==
            IF avg_rainfall < 100
            THEN <<[issue |-> <<"Low rainfall forecasted">>,
                    action |-> <<"Implement water conservation techniques and drip irrigation">>,
                    sustainability_impact |-> 22, confidence |-> 85]>>
            ELSE IF avg_rainfall > 1000
            THEN <<[issue |-> <<"High rainfall forecasted">>,
                    action |-> <<"Ensure proper drainage and consider delayed planting">>,
                    sustainability_impact |-> 17, confidence |-> 80]>>
            ELSE <<>>
        overall_impact ==
            IF temperature_impact = "negative" \/ rainfall_impact = "negative" THEN "negative"
            ELSE IF temperature_impact = "positive" /\ rainfall_impact = "positive" THEN "positive"
            ELSE "neutral"
    IN  [raised |-> FALSE,
         temperature_impact |-> temperature_impact,
         rainfall_impact    |-> rainfall_impact,
         overall_impact     |-> overall_impact,
         recommendations    |-> temp_recs \o rain_recs \o ExtremeRecs(forecast)
                                \o SeasonImpactRec(get_current_season(date))]

\* the date after a loop of `days` iterations that started on `date`
DateAfter(date, days, midnight) ==
    IF midnight # 0 /\ midnight <= days THEN date + 1 ELSE date

\* lines 142-162 of process_input: the historical data, the impact
\* assessment and the dictionary returned (or the exception raised), given
\* the current weather and the forecast already generated; date2 is the date
\* after the forecast loop
weather_response(region, include_historical, date2, current, fc) ==
    LET hist   == IF include_historical
                  THEN generate_historical_data(region, fc.pos, date2)
                  ELSE [historical_data |-> <<>>, pos |-> fc.pos]
        impact == assess_agricultural_impact(current.weather, fc.forecast, region, date2)
    IN  IF impact.raised
        THEN [result |-> [status |-> "raised", error |-> impact.error],
              pos |-> hist.pos, date |-> date2]
        ELSE [result |-> [status              |-> "success",
                          region              |-> region,
                          current_weather     |-> current.weather,
                          forecast            |-> fc.forecast,
                          has_historical_data |-> include_historical,
                          historical_data     |-> hist.historical_data,
                          agricultural_impact |-> impact],
              pos |-> hist.pos, date |-> date2]

\* lines 139-162 of process_input: the forecast and what follows it, given
\* the current weather already generated
forecast_and_respond(region, forecast_days, include_historical, date, midnight, current) ==
    weather_response(region, include_historical, DateAfter(date, forecast_days, midnight),
                     current,
                     generate_forecast(region, forecast_days, current.pos, date, midnight))

\* process_input that generates the current weather (of the default region)
\* before it looks the region up
process_input_generates_first(region, forecast_days, include_historical, pos, date, midnight) ==
    IF region \notin DOMAIN regions
    THEN [result |-> [status |-> "error", message |-> <<"Unknown region:", region>>],
          pos |-> generate_current_weather("central", pos, date).pos, date |-> date]
    ELSE forecast_and_respond(region, forecast_days, include_historical, date, midnight,
                              generate_current_weather(region, pos, date))

\* WeatherStation.process_input: the dictionary it returns (or the exception
\* it raises), the generator state and the date after
process_input(region, forecast_days, include_historical, pos, date, midnight) ==
    IF region \notin DOMAIN regions
    THEN [result |-> [status |-> "error", message |-> <<"Unknown region:", region>>],
          pos |-> pos, date |-> date]
    ELSE forecast_and_respond(region, forecast_days, include_historical, date, midnight,
                              generate_current_weather(region, pos, date))

(***************************************************************************)
(* Floating point values that may be infinite or not-a-number.  A finite   *)
(* value is kept exactly, as an integer number of its unit; the rounding   *)
(* of the binary representation is not modelled.                           *)
(***************************************************************************)
Fin(n) == [kind |-> "fin", val |-> n]
\* float('inf') and its negation
PosInf == [kind |-> "inf", val |-> 1]
NegInf == [kind |-> "inf", val |-> -1]
NaN == [kind |-> "nan", val |-> 0]

\* x * n for a float x and a finite n
FloatMul(x, n) ==
    CASE x.kind = "fin" -> Fin(x.val * n)
      [] x.kind = "nan" -> NaN
      [] OTHER -> IF n = 0 THEN NaN
                  ELSE IF (n > 0) = (x.val > 0) THEN PosInf ELSE NegInf

\* x + y
FloatAdd(x, y) ==
    CASE x.kind = "nan" \/ y.kind = "nan" -> NaN
      [] x.kind = "fin" /\ y.kind = "fin" -> Fin(x.val + y.val)
      [] x.kind = "fin" -> y
      [] y.kind = "fin" -> x
      [] OTHER -> IF x.val = y.val THEN x ELSE NaN

\* x < y: false when either is not-a-number
FloatLt(x, y) ==
    CASE x.kind = "nan" \/ y.kind = "nan" -> FALSE
      [] x.kind = "fin" /\ y.kind = "fin" -> x.val < y.val
      [] x.kind = "fin" -> y.val > 0
      [] y.kind = "fin" -> x.val < 0
      [] OTHER -> x.val < y.val

\* x >= y: false when either is not-a-number
FloatGe(x, y) ==
    /\ x.kind # "nan"
    /\ y.kind # "nan"
    /\ ~FloatLt(x, y)

(***************************************************************************)
(* list.sort(key = ..., reverse = True) and sorted(..., reverse = True) of *)
(* CPython for a list of fewer than 64 elements: the list is reversed, the *)
(* leading run is found (and reversed when strictly descending), the rest  *)
(* is inserted by binary insertion, and the list is reversed again.  The   *)
(* only comparison made is key(a) < key(b).  The elements sorted here are  *)
(* records [key, item].                                                    *)
(***************************************************************************)
Reverse(s) == [i \in 1..Len(s) |-> s[Len(s) + 1 - i]]

\* count_run, strictly descending case: the length of the run that starts
\* the list, n of its elements being known to belong to it
RECURSIVE DescendingRun(_, _)
DescendingRun(s, n) ==
    IF n < Len(s) /\ FloatLt(s[n + 1].key, s[n].key)
    THEN DescendingRun(s, n + 1)
    ELSE n

\* count_run, ascending case
RECURSIVE AscendingRun(_, _)
AscendingRun(s, n) ==
    IF n < Len(s) /\ ~FloatLt(s[n + 1].key, s[n].key)
    THEN AscendingRun(s, n + 1)
    ELSE n

\* binarysort's search: the place in s[l+1 .. r] (0-based bounds l, r) at
\* which the pivot is inserted
RECURSIVE BinarySearch(_, _, _, _)
BinarySearch(s, pivot, l, r) ==
    IF l >= r THEN l
    ELSE LET p == l + ((r - l) \div 2)
         IN  IF FloatLt(pivot.key, s[p + 1].key)
             THEN BinarySearch(s, pivot, l, p)
             ELSE BinarySearch(s, pivot, p + 1, r)

\* binarysort: s[1..start] is sorted; insert s[start+1], ... one by one
RECURSIVE BinarySort(_, _)
BinarySort(s, start) ==
    IF start >= Len(s) THEN s
    ELSE LET pivot == s[start + 1]
             l     == BinarySearch(s, pivot, 0, start)
             moved == [i \in 1..Len(s) |->
                          IF i <= l THEN s[i]
                          ELSE IF i = l + 1 THEN pivot
                          ELSE IF i <= start + 1 THEN s[i - 1]
                          ELSE s[i]]
         IN  BinarySort(moved, start + 1)

\* the forward sort
ListSort(s) ==
    IF Len(s) < 2 THEN s
    ELSE IF FloatLt(s[2].key, s[1].key)
         THEN LET n == DescendingRun(s, 2)
                  flipped == [i \in 1..Len(s) |-> IF i <= n THEN s[n + 1 - i] ELSE s[i]]
              IN  BinarySort(flipped, n)
         ELSE BinarySort(s, AscendingRun(s, 2))

SortReverse(s) == Reverse(ListSort(Reverse(s)))

(***************************************************************************)
(* The repository (db/database.py).  Soil pH is in tenths, sustainability  *)
(* scores in thousandths of a point; impacts and confidences of            *)
(* recommendations are in hundredths.  An economic impact is a float that  *)
(* may be infinite.                                                        *)
(***************************************************************************)
\* the farm_data table: farm_id -> row
farm_table ==
    [id \in 1..3 |->
       CASE id = 1 -> [farm_id |-> 1, soil_ph |-> 65, soil_moisture |-> 35,
                       temperature_c |-> 22, rainfall_mm |-> 100, crop_type |-> "Wheat",
                       fertilizer_usage_kg |-> 130, pesticide_usage_kg |-> 12,
                       crop_yield_ton |-> 4, sustainability_score |-> 50000]
         [] id = 2 -> [farm_id |-> 2, soil_ph |-> 55, soil_moisture |-> 20,
                       temperature_c |-> 20, rainfall_mm |-> 250, crop_type |-> "Rice",
                       fertilizer_usage_kg |-> 100, pesticide_usage_kg |-> 5,
                       crop_yield_ton |-> 6, sustainability_score |-> 99500]
         [] OTHER  -> [farm_id |-> 3, soil_ph |-> 75, soil_moisture |-> 25,
                       temperature_c |-> 28, rainfall_mm |-> 180, crop_type |-> "Barley",
                       fertilizer_usage_kg |-> 121, pesticide_usage_kg |-> 10,
                       crop_yield_ton |-> 3, sustainability_score |-> 0]]

\* the farm ids a caller supplies: the rows of the table, 0 (what the form
\* handler passes when no id is given) and an id no row has
FarmIds == {0, 1, 2, 3, 99}

\* AgriDatabase.get_farm_data: the row of farm_id, None when there is none,
\* and every row when farm_id is falsy
get_farm_data(farm_id) ==
    IF farm_id # 0
    THEN IF farm_id \in DOMAIN farm_table
         THEN [type |-> "dict", row |-> farm_table[farm_id]]
         ELSE [type |-> "None"]
    ELSE [type |-> "list", rows |-> farm_table]

\* `not farm_data`
Falsy(farm_data) ==
    \/ farm_data.type = "None"
    \/ farm_data.type = "list" /\ DOMAIN farm_data.rows = {}

\* AgriDatabase.add_recommendation: one row of the recommendations table
add_recommendation(farm_id, rec_type, rec_text, sustainability_impact, economic_impact, confidence_score) ==
    [farm_id |-> farm_id, recommendation_type |-> rec_type,
     recommendation_text |-> rec_text,
     sustainability_impact |-> sustainability_impact,
     economic_impact |-> economic_impact,
     confidence_score |-> confidence_score]

\* dict.get(field, default)
Get(rec, field, default) == IF field \in DOMAIN rec THEN rec[field] ELSE default

(***************************************************************************)
(* The farming engine (agents/farmer_advisor.py)                           *)
(***************************************************************************)
\* FarmerAdvisor.recommend_crops
recommend_crops(farm_data, sustainability_preference) ==
    LET soil_ph == farm_data.soil_ph
        byConditions ==
            IF soil_ph < 60
            THEN IF farm_data.temperature_c < 25 /\ farm_data.rainfall_mm > 200
                 THEN << [crop |-> "Rice", action |-> <<"plant Rice">>,
                          sustainability_impact |-> 150, economic_impact |-> Fin(180),
                          confidence |-> 80] >>
                 ELSE << >>
            ELSE IF soil_ph >= 60 /\ soil_ph <= 70
            THEN IF farm_data.soil_moisture > 30
                 THEN << [crop |-> "Corn", action |-> <<"plant Corn">>,
                          sustainability_impact |-> 170, economic_impact |-> Fin(200),
                          confidence |-> 85] >>
                 ELSE << [crop |-> "Wheat", action |-> <<"plant Wheat">>,
                          sustainability_impact |-> 180, economic_impact |-> Fin(160),
                          confidence |-> 80] >>
            ELSE << [crop |-> "Soybean", action |-> <<"plant Soybean">>,
                     sustainability_impact |-> 200, economic_impact |-> Fin(170),
                     confidence |-> 75] >>
        rotation ==
            IF sustainability_preference > 7
            THEN << [crop |-> "Crop Rotation", action |-> <<"rotate crops">>,
                     sustainability_impact |-> 250, economic_impact |-> Fin(100),
                     confidence |-> 90] >>
            ELSE << >>
    IN  byConditions \o rotation

\* FarmerAdvisor.recommend_resource_optimization
recommend_resource_optimization(farm_data, sustainability_preference) ==
    (IF farm_data.rainfall_mm < 150
     THEN << [resource |-> "Water", action |-> <<"drip irrigation">>,
              sustainability_impact |-> 220, economic_impact |-> Fin(80),
              confidence |-> 85] >>
     ELSE << >>)
    \o
    (IF farm_data.fertilizer_usage_kg > 120
     THEN << [resource |-> "Fertilizer", action |-> <<"precision fertilizer">>,
              sustainability_impact |-> 200, economic_impact |-> Fin(120),
              confidence |-> 80] >>
     ELSE << >>)
    \o
    (IF farm_data.pesticide_usage_kg > 10
     THEN << [resource |-> "Pesticides", action |-> <<"integrated pest management">>,
              sustainability_impact |-> 250, economic_impact |-> Fin(90),
              confidence |-> 85] >>
     ELSE << >>)
    \o
    << [resource |-> "Soil", action |-> <<"cover cropping">>,
        sustainability_impact |-> 230, economic_impact |-> Fin(100),
        confidence |-> 90] >>

\* FarmerAdvisor.recommend_sustainable_practices
recommend_sustainable_practices(farm_data, sustainability_preference) ==
    << [practice |-> "Soil Testing", action |-> <<"soil testing">>,
        sustainability_impact |-> 180, economic_impact |-> Fin(150),
        confidence |-> 90],
       [practice |-> "Organic Matter", action |-> <<"organic matter">>,
        sustainability_impact |-> 200, economic_impact |-> Fin(90),
        confidence |-> 85] >>
    \o
    (IF sustainability_preference > 5
     THEN << [practice |-> "Biodiversity", action |-> <<"field margins">>,
              sustainability_impact |-> 220, economic_impact |-> Fin(50),
              confidence |-> 80] >>
     ELSE << >>)
    \o
    (IF sustainability_preference > 8
     THEN << [practice |-> "Renewable Energy", action |-> <<"renewable energy">>,
              sustainability_impact |-> 250, economic_impact |-> Fin(-50),
              confidence |-> 75] >>
     ELSE << >>)

\* the recommendations of a list of groups, in order
RECURSIVE Flatten(_)
Flatten(groups) ==
    IF groups = << >> THEN << >>
    ELSE [i \in 1..Len(groups[1].recommendations) |->
             [category |-> groups[1].category, rec |-> groups[1].recommendations[i]]]
         \o Flatten(Tail(groups))

\* a farming engine that stores only the first five of the items it returns
FarmingRows_first_five(farm_id, recommendations) ==
    LET flat == Flatten(recommendations)
    IN  [i \in 1..Min(5, Len(flat)) |->
            add_recommendation(farm_id, flat[i].category, flat[i].rec.action,
                               Get(flat[i].rec, "sustainability_impact", 0),
                               Get(flat[i].rec, "economic_impact", Fin(0)),
                               Get(flat[i].rec, "confidence", 0))]

\* the rows the farming engine adds to the recommendations table
FarmingRows(farm_id, recommendations) ==
    LET flat == Flatten(recommendations)
    IN  [i \in 1..Len(flat) |->
            add_recommendation(farm_id, flat[i].category, flat[i].rec.action,
                               Get(flat[i].rec, "sustainability_impact", 0),
                               Get(flat[i].rec, "economic_impact", Fin(0)),
                               Get(flat[i].rec, "confidence", 0))]

\* FarmerAdvisor.generate_recommendations: what it returns and the rows it
\* adds to the recommendations table
farmer_generate_recommendations(farm_id, sustainability_preference) ==
    LET farm_data == get_farm_data(farm_id)
    IN  IF Falsy(farm_data)
        THEN [recommendations |-> [status |-> "error", message |-> <<"Farm ID not found", farm_id>>],
              rows |-> << >>]
        ELSE
        LET recommendations ==
                << [category |-> "Crop Selection",
                    recommendations |-> recommend_crops(farm_data.row, sustainability_preference)],
                   [category |-> "Resource Optimization",
                    recommendations |->
                        recommend_resource_optimization(farm_data.row, sustainability_preference)],
                   [category |-> "Sustainable Practices",
                    recommendations |->
                        recommend_sustainable_practices(farm_data.row, sustainability_preference)] >>
        IN  [recommendations |-> recommendations,
             rows |-> FarmingRows(farm_id, recommendations)]

(***************************************************************************)
(* The market engine (agents/market_researcher.py).  Prices and indices    *)
(* are integers; the tables are chosen so that every mean the engine takes *)
(* is an integer and every finite profit potential a whole number of       *)
(* hundredths.  The crops the farms grow have positive prices.             *)
(***************************************************************************)
\* a row of the market_data table
MarketRow(product, price, demand, supply, competitor, trend, season) ==
    [product |-> product, market_price_per_ton |-> price, demand_index |-> demand,
     supply_index |-> supply, competitor_price_per_ton |-> competitor,
     consumer_trend_index |-> trend, seasonal_factor |-> season]

\* a market_data table
MarketTable ==
    << MarketRow("Wheat",   320, 100, 100, 310,  95, "High"),
       MarketRow("Wheat",   280, 100, 100, 290,  95, "Low"),
       MarketRow("Rice",    450, 150, 100, 430, 110, "Medium"),
       MarketRow("Rice",    350, 150, 100, 370, 110, "High"),
       MarketRow("Corn",    200,  80, 160, 150,  80, "Low"),
       MarketRow("Corn",    200,  80, 160, 150,  80, "Medium"),
       MarketRow("Soybean", 350, 130, 100, 350, 100, "Medium") >>

\* the same table with no supply of Corn recorded
MarketTableNoCornSupply ==
    [i \in 1..Len(MarketTable) |->
        IF MarketTable[i].product = "Corn"
        THEN [MarketTable[i] EXCEPT !.supply_index = 0]
        ELSE MarketTable[i]]

\* the same table with Corn not traded: its rows hold zeros
MarketTableCornNotTraded ==
    [i \in 1..Len(MarketTable) |->
        IF MarketTable[i].product = "Corn"
        THEN MarketRow("Corn", 0, 0, 0, 0, 0, MarketTable[i].seasonal_factor)
        ELSE MarketTable[i]]

\* a table with one row a product, Corn not traded
MarketTableOneRowEach ==
    << MarketRow("Wheat",   100, 100, 100, 100,  80, "High"),
       MarketRow("Rice",    100, 100, 100, 100,  80, "Medium"),
       MarketRow("Corn",      0,   0,   0,   0,   0, "Low"),
       MarketRow("Soybean", 600, 100, 100, 600, 100, "Medium") >>

MarketTables ==
    {MarketTable, MarketTableNoCornSupply, MarketTableCornNotTraded, MarketTableOneRowEach}

\* the order in which pandas' groupby yields the products and the seasonal
\* factors (sorted keys)
ProductOrder == <<"Corn", "Rice", "Soybean", "Wheat">>
SeasonalFactorOrder == <<"High", "Low", "Medium">>

RECURSIVE SumField(_, _)
SumField(rows, field) ==
    IF rows = << >> THEN 0 ELSE rows[1][field] + SumField(Tail(rows), field)

\* Series.mean()
Mean(rows, field) == SumField(rows, field) \div Len(rows)

\* the rows of a product; of a product and a seasonal factor
ProductRows(md, product) == SelectSeq(md, LAMBDA row : row.product = product)
SeasonRows(rows, season) == SelectSeq(rows, LAMBDA row : row.seasonal_factor = season)

\* the keys of groupby("product")
GroupedProducts(md) ==
    SelectSeq(ProductOrder, LAMBDA p : ProductRows(md, p) # << >>)

\* Series.unique(): the products in order of first appearance
RECURSIVE Unique(_, _)
Unique(md, seen) ==
    IF md = << >> THEN << >>
    ELSE IF md[1].product \in seen THEN Unique(Tail(md), seen)
    ELSE <<md[1].product>> \o Unique(Tail(md), seen \cup {md[1].product})

\* the status with the two labels of the thresholds exchanged
determine_market_status_labels_exchanged(demand, supply) ==
    IF supply > 0
    THEN IF 10 * demand > 12 * supply THEN "oversupplied"
         ELSE IF 10 * demand < 8 * supply THEN "undersupplied"
         ELSE "balanced"
    ELSE "undersupplied"

\* the status with a ratio of exactly 1.2 counted as undersupplied
determine_market_status_from_12(demand, supply) ==
    IF supply > 0
    THEN IF 10 * demand >= 12 * supply THEN "undersupplied"
         ELSE IF 10 * demand < 8 * supply THEN "oversupplied"
         ELSE "balanced"
    ELSE "undersupplied"

\* MarketResearcher.determine_market_status; the ratio is infinite when
\* there is no supply
determine_market_status(demand, supply) ==
    IF supply > 0
    THEN IF 10 * demand > 12 * supply THEN "undersupplied"
         ELSE IF 10 * demand < 8 * supply THEN "oversupplied"
         ELSE "balanced"
    ELSE "undersupplied"

\* the first of the seasonal factors of `rows` with the highest mean price
\* (max over the groups of groupby("seasonal_factor"))
RECURSIVE HighestPriceSeason(_, _, _)
HighestPriceSeason(rows, order, best) ==
    IF order = << >> THEN best
    ELSE LET season == order[1]
             group  == SeasonRows(rows, season)
         IN  IF group = << >> THEN HighestPriceSeason(rows, Tail(order), best)
             ELSE IF best = "" \/
                     Mean(group, "market_price_per_ton")
                       > Mean(SeasonRows(rows, best), "market_price_per_ton")
             THEN HighestPriceSeason(rows, Tail(order), season)
             ELSE HighestPriceSeason(rows, Tail(order), best)

\* MarketResearcher.analyze_demand_trend: the trend status
analyze_demand_trend(rows) ==
    LET avg_consumer_trend == Mean(rows, "consumer_trend_index")
    IN  IF avg_consumer_trend > 120 THEN "strongly_increasing"
        ELSE IF avg_consumer_trend > 100 THEN "increasing"
        ELSE IF avg_consumer_trend > 90 THEN "stable"
        ELSE IF avg_consumer_trend > 70 THEN "decreasing"
        ELSE "strongly_decreasing"

\* MarketResearcher.forecast_price for the short term: the price trend.
\* deviation is 10000 * current_price * (4 * forecast_factor - 4).  With a
\* current price of 0 the competitor factor is infinite or not a number, the
\* forecast price 0 * that is not a number, and no comparison with it holds.
forecast_price(rows) ==
    LET current_price    == Mean(rows, "market_price_per_ton")
        demand_index     == Mean(rows, "demand_index")
        supply_index     == Mean(rows, "supply_index")
        competitor_price == Mean(rows, "competitor_price_per_ton")
        consumer_trend   == Mean(rows, "consumer_trend_index")
        deviation ==
              current_price * (48 * demand_index - 6000)
            + current_price * (4000 - 32 * supply_index)
            + 3000 * (competitor_price - current_price)
            + current_price * (20 * consumer_trend - 2000)
    IN  [forecast_confidence |-> 80,
         price_trend |->
            IF current_price = 0 THEN "stable"
            ELSE IF deviation > 4000 * current_price THEN "increasing"
            ELSE IF deviation > 800 * current_price THEN "slightly_increasing"
            ELSE IF deviation < -4000 * current_price THEN "decreasing"
            ELSE IF deviation < -800 * current_price THEN "slightly_decreasing"
            ELSE "stable"]

\* the profit potential of generate_market_overview, in hundredths:
\* avg_price * (avg_demand / avg_supply, or infinity) * (avg_trend / 100)
ProfitPotential(rows) ==
    LET avg_price  == Mean(rows, "market_price_per_ton")
        avg_demand == Mean(rows, "demand_index")
        avg_supply == Mean(rows, "supply_index")
        avg_trend  == Mean(rows, "consumer_trend_index")
    IN  IF avg_supply > 0
        THEN Fin((avg_price * avg_demand * avg_trend) \div avg_supply)
        ELSE FloatMul(FloatMul(PosInf, avg_price), avg_trend)

\* x / 100
FloatDiv100(x) == IF x.kind = "fin" THEN Fin(x.val \div 100) ELSE x

\* MarketResearcher.generate_market_overview for the short term: the
\* top_profit_potential_crops
generate_market_overview(md) ==
    LET products == GroupedProducts(md)
        keyed    == [i \in 1..Len(products) |->
                        [key |-> ProfitPotential(ProductRows(md, products[i])),
                         item |-> products[i]]]
        sorted_products == SortReverse(keyed)
    IN  [i \in 1..Min(3, Len(sorted_products)) |->
            LET rows == ProductRows(md, sorted_products[i].item)
            IN  [product |-> sorted_products[i].item,
                 profit_potential |-> sorted_products[i].key,
                 market_status |->
                     determine_market_status(Mean(rows, "demand_index"),
                                             Mean(rows, "supply_index")),
                 consumer_trend |-> Mean(rows, "consumer_trend_index"),
                 confidence |-> 80]]

\* the recommendations with a production increase advised whenever the
\* market is not oversupplied
generate_market_recommendations_unless_oversupplied(rows) ==
    LET product        == rows[1].product
        market_status  == determine_market_status(Mean(rows, "demand_index"),
                                                  Mean(rows, "supply_index"))
        price_forecast == forecast_price(rows)
        trend_status   == analyze_demand_trend(rows)
        best_season    == HighestPriceSeason(rows, SeasonalFactorOrder, "")
    IN  (IF market_status # "oversupplied"
         THEN << [focus |-> <<"Production Increase">>, action |-> <<"increase production", product>>,
                  economic_impact |-> Fin(200), confidence |-> 85] >>
         ELSE IF market_status = "oversupplied"
         THEN << [focus |-> <<"Diversification">>, action |-> <<"reduce production", product>>,
                  economic_impact |-> Fin(120), confidence |-> 80] >>
         ELSE << >>)
        \o
        (IF price_forecast.price_trend \in {"increasing", "slightly_increasing"}
         THEN << [focus |-> <<"Investment">>, action |-> <<"invest in capacity", product>>,
                  economic_impact |-> Fin(180),
                  confidence |-> price_forecast.forecast_confidence] >>
         ELSE IF price_forecast.price_trend \in {"decreasing", "slightly_decreasing"}
         THEN << [focus |-> <<"Cost Reduction">>, action |-> <<"reduce costs", product>>,
                  economic_impact |-> Fin(150),
                  confidence |-> price_forecast.forecast_confidence] >>
         ELSE << >>)
        \o
        (IF trend_status \in {"strongly_increasing", "increasing"}
         THEN << [focus |-> <<"Market Expansion">>, action |-> <<"new market channels", product>>,
                  economic_impact |-> Fin(170), confidence |-> 75] >>
         ELSE IF trend_status \in {"decreasing", "strongly_decreasing"}
         THEN << [focus |-> <<"Crop Switching">>, action |-> <<"transition from", product>>,
                  economic_impact |-> Fin(160), confidence |-> 70] >>
         ELSE << >>)
        \o
        << [focus |-> <<"Timing Optimization">>, action |-> <<"time harvest", product, best_season>>,
            economic_impact |-> Fin(140), confidence |-> 80] >>

\* MarketResearcher.generate_market_recommendations for the analysis that
\* analyze_product_market makes of the rows of a product
generate_market_recommendations(rows) ==
    LET product        == rows[1].product
        market_status  == determine_market_status(Mean(rows, "demand_index"),
                                                  Mean(rows, "supply_index"))
        price_forecast == forecast_price(rows)
        trend_status   == analyze_demand_trend(rows)
        best_season    == HighestPriceSeason(rows, SeasonalFactorOrder, "")
    IN  (IF market_status = "undersupplied"
         THEN << [focus |-> <<"Production Increase">>, action |-> <<"increase production", product>>,
                  economic_impact |-> Fin(200), confidence |-> 85] >>
         ELSE IF market_status = "oversupplied"
         THEN << [focus |-> <<"Diversification">>, action |-> <<"reduce production", product>>,
                  economic_impact |-> Fin(120), confidence |-> 80] >>
         ELSE << >>)
        \o
        (IF price_forecast.price_trend \in {"increasing", "slightly_increasing"}
         THEN << [focus |-> <<"Investment">>, action |-> <<"invest in capacity", product>>,
                  economic_impact |-> Fin(180),
                  confidence |-> price_forecast.forecast_confidence] >>
         ELSE IF price_forecast.price_trend \in {"decreasing", "slightly_decreasing"}
         THEN << [focus |-> <<"Cost Reduction">>, action |-> <<"reduce costs", product>>,
                  economic_impact |-> Fin(150),
                  confidence |-> price_forecast.forecast_confidence] >>
         ELSE << >>)
        \o
        (IF trend_status \in {"strongly_increasing", "increasing"}
         THEN << [focus |-> <<"Market Expansion">>, action |-> <<"new market channels", product>>,
                  economic_impact |-> Fin(170), confidence |-> 75] >>
         ELSE IF trend_status \in {"decreasing", "strongly_decreasing"}
         THEN << [focus |-> <<"Crop Switching">>, action |-> <<"transition from", product>>,
                  economic_impact |-> Fin(160), confidence |-> 70] >>
         ELSE << >>)
        \o
        << [focus |-> <<"Timing Optimization">>, action |-> <<"time harvest", product, best_season>>,
            economic_impact |-> Fin(140), confidence |-> 80] >>

\* MarketResearcher.recommend_diversification
recommend_diversification(top_crops, current_crop) ==
    LET diversification_options ==
            SelectSeq(top_crops, LAMBDA crop : crop.product # current_crop)
    IN  [i \in 1..Min(2, Len(diversification_options)) |->
            [focus |-> <<"Diversification", diversification_options[i].product>>,
             action |-> <<"allocate land to", diversification_options[i].product>>,
             economic_impact |-> FloatDiv100(diversification_options[i].profit_potential),
             confidence |-> diversification_options[i].confidence]]
        \o
        << [focus |-> <<"Risk Management">>, action |-> <<"multi-crop strategy">>,
            economic_impact |-> Fin(140), confidence |-> 85] >>

\* the season with the best mean price for a product, "" when no season has
\* a positive one (recommend_seasonal_strategy's search)
RECURSIVE BestSeason(_, _, _, _)
BestSeason(rows, order, max_price, best_season) ==
    IF order = << >> THEN best_season
    ELSE LET group == SeasonRows(rows, order[1])
         IN  IF group # << >> /\ Mean(group, "market_price_per_ton") > max_price
             THEN BestSeason(rows, Tail(order),
                             Mean(group, "market_price_per_ton"), order[1])
             ELSE BestSeason(rows, Tail(order), max_price, best_season)

\* MarketResearcher.recommend_seasonal_strategy for the short term
recommend_seasonal_strategy(md) ==
    LET products == Unique(md, {})
        timed    == SelectSeq(products,
                        LAMBDA p : BestSeason(ProductRows(md, p), SeasonalFactorOrder, 0, "") # "")
    IN  [i \in 1..Min(3, Len(timed)) |->
            [focus |-> <<"Seasonal Timing", timed[i]>>,
             action |-> <<"plan harvest", timed[i],
                          BestSeason(ProductRows(md, timed[i]), SeasonalFactorOrder, 0, "")>>,
             economic_impact |-> Fin(150), confidence |-> 80]]

\* the rows the market engine adds to the recommendations table
MarketRows(farm_id, recommendations) ==
    LET flat == Flatten(recommendations)
    IN  [i \in 1..Len(flat) |->
            add_recommendation(farm_id, flat[i].category, flat[i].rec.action, 0,
                               Get(flat[i].rec, "economic_impact", Fin(0)),
                               Get(flat[i].rec, "confidence", 0))]

\* MarketResearcher.generate_recommendations for a context with a farm id
\* and the crop of that farm: what it returns and the rows it adds to the
\* recommendations table
market_generate_recommendations(farm_id, context_crop_type, md) ==
    LET farm_data == IF farm_id # 0 THEN get_farm_data(farm_id) ELSE [type |-> "None"]
        crop_type == IF farm_data.type = "dict" THEN farm_data.row.crop_type
                     ELSE context_crop_type
        market_overview == generate_market_overview(md)
        opportunities ==
            << [category |-> "Market Opportunities",
                recommendations |->
                    [i \in 1..Len(market_overview) |->
                        [focus |-> <<"High Potential", market_overview[i].product>>,
                         action |-> <<"opportunity", market_overview[i].product>>,
                         economic_impact |-> FloatDiv100(market_overview[i].profit_potential),
                         confidence |-> market_overview[i].confidence]]] >>
        product_data == ProductRows(md, crop_type)
        current_crop ==
            IF product_data # << >>
            THEN << [category |-> "Current Crop Analysis",
                     recommendations |-> generate_market_recommendations(product_data)] >>
            ELSE << >>
        diversification ==
            << [category |-> "Diversification Strategy",
                recommendations |-> recommend_diversification(market_overview, crop_type)] >>
        seasonal_recs == recommend_seasonal_strategy(md)
        seasonal ==
            IF seasonal_recs # << >>
            THEN << [category |-> "Seasonal Strategy", recommendations |-> seasonal_recs] >>
            ELSE << >>
        recommendations == opportunities \o current_crop \o diversification \o seasonal
    IN  [recommendations |-> recommendations,
         rows |-> IF farm_id # 0 THEN MarketRows(farm_id, recommendations) ELSE << >>]

(***************************************************************************)
(* WeatherStation.generate_recommendations                                 *)
(***************************************************************************)
\* the short-term recommendations with half a point of confidence taken off
\* for each day of forecast distance
RECURSIVE ShortTermRecs_half_a_day(_, _)
ShortTermRecs_half_a_day(forecast, i) ==
    IF i >= Min(7, Len(forecast)) THEN << >>
    ELSE LET day == forecast[i + 1]
         IN  (IF day.condition \in {"Heavy Rain", "Flood Warning"}
              THEN << [focus |-> <<"Heavy Rain Management", i + 1>>,
                       action |-> <<"ensure drainage">>,
                       sustainability_impact |-> 180, confidence |-> 85 - 50 * i] >>
              ELSE IF day.condition \in {"Drought Conditions", "Hot"} /\ day.rainfall_mm < 20
              THEN << [focus |-> <<"Drought Management", i + 1>>,
                       action |-> <<"irrigate early">>,
                       sustainability_impact |-> 200, confidence |-> 85 - 50 * i] >>
              ELSE << >>)
             \o ShortTermRecs_half_a_day(forecast, i + 1)

\* the short-term recommendations for the first seven days of a forecast,
\* i counting the days from 0
RECURSIVE ShortTermRecs(_, _)
ShortTermRecs(forecast, i) ==
    IF i >= Min(7, Len(forecast)) THEN << >>
    ELSE LET day == forecast[i + 1]
         IN  (IF day.condition \in {"Heavy Rain", "Flood Warning"}
              THEN << [focus |-> <<"Heavy Rain Management", i + 1>>,
                       action |-> <<"ensure drainage">>,
                       sustainability_impact |-> 180, confidence |-> 85 - 5 * i] >>
              ELSE IF day.condition \in {"Drought Conditions", "Hot"} /\ day.rainfall_mm < 20
              THEN << [focus |-> <<"Drought Management", i + 1>>,
                       action |-> <<"irrigate early">>,
                       sustainability_impact |-> 200, confidence |-> 85 - 5 * i] >>
              ELSE << >>)
             \o ShortTermRecs(forecast, i + 1)

\* the recommendation for the season in progress
CurrentSeasonRec(current_season) ==
    CASE current_season = "spring" ->
            [focus |-> <<"Spring Planting">>, action |-> <<"monitor soil temperature">>,
             sustainability_impact |-> 160, confidence |-> 90]
      [] current_season = "summer" ->
            [focus |-> <<"Summer Heat Management">>, action |-> <<"mulching">>,
             sustainability_impact |-> 190, confidence |-> 85]
      [] current_season = "fall" ->
            [focus |-> <<"Fall Preparations">>, action |-> <<"plan cover crop">>,
             sustainability_impact |-> 210, confidence |-> 90]
      [] OTHER ->
            [focus |-> <<"Winter Planning">>, action |-> <<"soil testing and planning">>,
             sustainability_impact |-> 170, confidence |-> 90]

\* the season after `season` in the seasons table
NextSeason(season) ==
    LET i == CHOOSE k \in 1..Len(SeasonOrder) : SeasonOrder[k] = season
    IN  SeasonOrder[(i % 4) + 1]

\* the rows the weather engine adds to the recommendations table
WeatherRows(farm_id, recommendations) ==
    LET flat == Flatten(recommendations)
    IN  [i \in 1..Len(flat) |->
            add_recommendation(farm_id, flat[i].category, flat[i].rec.action,
                               Get(flat[i].rec, "sustainability_impact", 0),
                               Fin(0),
                               Get(flat[i].rec, "confidence", 0))]

\* lines 534-642 of generate_recommendations: the categorized
\* recommendations made from the 14-day forecast
categorized_recommendations(forecast, date) ==
    LET short_term_recs == ShortTermRecs(forecast, 0)
        short_term ==
            IF short_term_recs # << >>
            THEN << [category |-> "Short-term Weather Management",
                     recommendations |-> SubSeq(short_term_recs, 1, Min(3, Len(short_term_recs)))] >>
            ELSE << >>
        current_season == get_current_season(date)
        next_season    == NextSeason(current_season)
        seasonal ==
            << [category |-> "Seasonal Planning",
                recommendations |->
                    << CurrentSeasonRec(current_season),
                       [focus |-> <<"Preparation", next_season>>,
                        action |-> <<"prepare for", next_season>>,
                        sustainability_impact |-> 150, confidence |-> 80] >>] >>
        \* 14 * avg_rainfall, in tenths of a millimetre
        total_rainfall == SumOf(forecast, "rainfall_mm")
        water ==
            << [category |-> "Water Management",
                recommendations |->
                    (IF total_rainfall < 14 * 30
                     THEN << [focus |-> <<"Drought Mitigation">>,
                              action |-> <<"rainwater harvesting">>,
                              sustainability_impact |-> 230, confidence |-> 80] >>
                     ELSE IF total_rainfall > 14 * 70
                     THEN << [focus |-> <<"Excess Water Management">>,
                              action |-> <<"drainage systems">>,
                              sustainability_impact |-> 180, confidence |-> 80] >>
                     ELSE << >>)
                    \o
                    << [focus |-> <<"Water Conservation">>,
                        action |-> <<"soil moisture sensors">>,
                        sustainability_impact |-> 200, confidence |-> 90] >>] >>
    IN  short_term \o seasonal \o water

\* lines 644-657 of generate_recommendations: the list returned, the rows stored
\* when a farm_id is given, and the generator state after
store_and_return(farm_id, recommendations, pos) ==
    [is_list |-> TRUE,
     recommendations |-> recommendations,
     rows |-> IF farm_id # 0 THEN WeatherRows(farm_id, recommendations) ELSE << >>,
     pos |-> pos]

\* WeatherStation.generate_recommendations: what it returns (a list of groups
\* or an error dictionary), the rows it adds to the recommendations table and
\* the generator state after
weather_generate_recommendations(farm_id, region, pos, date) ==
    IF region \notin DOMAIN regions
    THEN [is_list |-> FALSE,
          recommendations |-> [status |-> "error", message |-> <<"Unknown region", region>>],
          rows |-> << >>, pos |-> pos]
    ELSE
    LET current == generate_current_weather(region, pos, date)
        fc      == generate_forecast(region, 14, current.pos, date, 0)
    IN  store_and_return(farm_id, categorized_recommendations(fc.forecast, date), fc.pos)

(***************************************************************************)
(* The synthesis (models/multi_agent_system.py).  The preference is kept   *)
(* as the integer the caller passes: sustainability_weight is              *)
(* preference / 10 and economic_weight is 1 - preference / 10, both in     *)
(* tenths.  Source weights are in tenths.  A score is a float in           *)
(* millionths.                                                             *)
(***************************************************************************)
\* sustainability_weight and economic_weight, in tenths
SustainabilityWeight(sustainability_preference) == sustainability_preference
EconomicWeight(sustainability_preference) == 10 - SustainabilityWeight(sustainability_preference)

\* the score extract_recs gives a recommendation
Score(rec, weight, sustainability_preference) ==
    LET sustainability == Get(rec, "sustainability_impact", 0)
        economic       == Get(rec, "economic_impact", Fin(0))
        confidence     == Get(rec, "confidence", 50)
        sustainability_weight == SustainabilityWeight(sustainability_preference)
        economic_weight       == EconomicWeight(sustainability_preference)
    IN  FloatMul(FloatMul(FloatAdd(Fin(sustainability * sustainability_weight),
                                   FloatMul(economic, economic_weight)),
                          confidence),
                 weight)

\* extract_recs for a list of groups: the entries appended to high_priority
extract_recs(category, source, weight, sustainability_preference) ==
    LET flat == Flatten(source)
    IN  [i \in 1..Len(flat) |->
            [category              |-> category,
             focus                 |-> Get(flat[i].rec, "focus", << >>),
             action                |-> flat[i].rec.action,
             sustainability_impact |-> Get(flat[i].rec, "sustainability_impact", 0),
             economic_impact       |-> Get(flat[i].rec, "economic_impact", Fin(0)),
             confidence            |-> Get(flat[i].rec, "confidence", 50),
             score                 |-> Score(flat[i].rec, weight, sustainability_preference)]]

\* the three calls of extract_recs with the source weights in the opposite
\* order
HighPriority_weather_first(farming, market, weather, sustainability_preference) ==
    extract_recs("Farming Practices", farming, 8, sustainability_preference)
    \o extract_recs("Market Strategy", market, 9, sustainability_preference)
    \o extract_recs("Weather Management", weather, 10, sustainability_preference)

\* the three calls of extract_recs, every source being a list of groups
HighPriority(farming, market, weather, sustainability_preference) ==
    extract_recs("Farming Practices", farming, 10, sustainability_preference)
    \o extract_recs("Market Strategy", market, 9, sustainability_preference)
    \o extract_recs("Weather Management", weather, 8, sustainability_preference)

\* high_priority.sort(key = score, reverse = True)
SortByScore(high_priority) ==
    LET keyed == [i \in 1..Len(high_priority) |->
                     [key |-> high_priority[i].score, item |-> high_priority[i]]]
        sorted == SortReverse(keyed)
    IN  [i \in 1..Len(sorted) |-> sorted[i].item]

\* high_priority[:5]
Top5(high_priority) == SubSeq(high_priority, 1, Min(5, Len(high_priority)))

RECURSIVE SumImpact(_)
SumImpact(recs) ==
    IF recs = << >> THEN 0
    ELSE recs[1].sustainability_impact + SumImpact(Tail(recs))

\* a summary that does not cap the potential score
sustainability_summary_uncapped(farm_data, top) ==
    LET initial_sustainability == farm_data.sustainability_score
        potential_improvement  == 2 * SumImpact(top)
    IN  [current_score   |-> initial_sustainability,
         potential_score |-> initial_sustainability + potential_improvement,
         improvement_percentage |->
             IF initial_sustainability > 0
             THEN (potential_improvement * 100000) \div initial_sustainability
             ELSE 0]

\* a summary that takes a tenth of the impacts as the potential improvement
sustainability_summary_tenth(farm_data, top) ==
    LET initial_sustainability == farm_data.sustainability_score
        potential_improvement  == SumImpact(top)
    IN  [current_score   |-> initial_sustainability,
         potential_score |-> Min(100000, initial_sustainability + potential_improvement),
         improvement_percentage |->
             IF initial_sustainability > 0
             THEN (potential_improvement * 100000) \div initial_sustainability
             ELSE 0]

\* the sustainability_summary; scores in thousandths of a point, the
\* improvement in thousandths of a percent (rounded down)
sustainability_summary(farm_data, top) ==
    LET initial_sustainability == farm_data.sustainability_score
        potential_improvement  == 2 * SumImpact(top)
    IN  [current_score   |-> initial_sustainability,
         potential_score |-> Min(100000, initial_sustainability + potential_improvement),
         improvement_percentage |->
             IF initial_sustainability > 0
             THEN (potential_improvement * 100000) \div initial_sustainability
             ELSE 0]

\* what the text generator answers to the three requests of a synthesis:
\* the set of the requests it answers successfully
LlmAnswers == { {}, {"market"}, {"farm", "market", "weather"} }

\* the entries the enrichment adds to the recommendations
LlmEntries(answered) ==
    [k \in { name \in {"llm_farm_analysis", "llm_market_insights", "llm_weather_insights"} :
                \/ name = "llm_farm_analysis" /\ "farm" \in answered
                \/ name = "llm_market_insights" /\ "market" \in answered
                \/ name = "llm_weather_insights" /\ "weather" \in answered }
       |-> "generated_text"]

\* lines 132-167 of generate_farm_recommendations, given the sorted list
\* high_priority: the top five, the summary, the enrichment and the result
summarize_and_enhance(farm_data, region, pos, date, llm, answered, farming, market, weather, rows, high_priority) ==
    LET top == Top5(high_priority)
        recommendations ==
            [farm_data |-> farm_data,
             farming_recommendations |-> farming,
             market_recommendations  |-> market,
             weather_recommendations |-> weather,
             high_priority_actions   |-> top,
             sustainability_summary  |-> sustainability_summary(farm_data, top)]
        llm_forecast == generate_forecast(region, 7, pos, date, 0)
    IN  [status |-> "returned",
         result |-> IF llm THEN recommendations @@ LlmEntries(answered)
                    ELSE recommendations,
         rows |-> rows,
         pos |-> IF llm THEN llm_forecast.pos ELSE pos,
         scored |-> high_priority,
         engines |-> {"farming", "market", "weather"}]

\* lines 96-167 of generate_farm_recommendations, given what the three
\* engines returned
extract_and_rank(farm_data, region, sustainability_preference, date, llm, answered, farming, market, weather) ==
    IF ~weather.is_list
    THEN \* extract_recs iterates the keys of the error dictionary:
         \* group["recommendations"] on a str
         [status |-> "raised", error |-> "TypeError",
          rows |-> farming.rows \o market.rows \o weather.rows,
          pos |-> weather.pos, scored |-> << >>,
          engines |-> {"farming", "market", "weather"}]
    ELSE summarize_and_enhance(farm_data, region, weather.pos, date, llm, answered,
                               farming.recommendations, market.recommendations,
                               weather.recommendations,
                               farming.rows \o market.rows \o weather.rows,
                               SortByScore(HighPriority(farming.recommendations,
                                                        market.recommendations,
                                                        weather.recommendations,
                                                        sustainability_preference)))

\* SustainableFarmingSystem.generate_farm_recommendations: how the call ends
\* (returned or raised), what it returns, the rows added to the
\* recommendations table and the generator state after.  `scored` is the
\* local list high_priority after the sort, `engines` the engines invoked.
generate_farm_recommendations(farm_id, region, sustainability_preference, pos, date, md, llm, answered) ==
    LET farm_data == get_farm_data(farm_id)
    IN
    IF Falsy(farm_data)
    THEN [status |-> "returned",
          result |-> [status |-> "error", message |-> <<"Farm ID not found", farm_id>>],
          rows |-> << >>, pos |-> pos, scored |-> << >>, engines |-> {}]
    ELSE IF farm_data.type # "dict"
    THEN \* farm_data["crop_type"] on a list
         [status |-> "raised", error |-> "TypeError",
          rows |-> << >>, pos |-> pos, scored |-> << >>, engines |-> {}]
    ELSE extract_and_rank(farm_data.row, region, sustainability_preference, date, llm, answered,
                          farmer_generate_recommendations(farm_id, sustainability_preference),
                          market_generate_recommendations(farm_id, farm_data.row.crop_type, md),
                          weather_generate_recommendations(farm_id, region, pos, date))

(***************************************************************************)
(* The calls.                                                              *)
(***************************************************************************)
NoCall == [op |-> "none"]

\* BaseAgent.update_state(key, value): self.state[key] = value
update_state(agent_state, key, value) == (key :> value) @@ agent_state

\* log_action keeping the type of the action in the state map
log_action_remembered(agent_state, action_type) ==
    update_state(agent_state, "last_action", action_type)

\* BaseAgent.log_action(action_type, action_details): a row is added to the
\* agent_interactions table; the state map of the engine is left as it is
log_action(agent_state, action_type) == agent_state

\* the clock has advanced by at most MaxElapsed days since the start
ClockOk(date) == \E d0 \in StartDates : d0 <= date /\ date <= d0 + MaxElapsed

\* the iterations before which midnight may pass in a loop of `days` iterations
Midnights(days) == {0} \cup {m \in 1..MaxMidnight : m <= days}

\* a direct call of WeatherStation.generate_forecast(region, days); an
\* unknown region raises KeyError at self.regions[region]
Forecast(region, days, midnight) ==
    /\ last.op \in {"none", "forecast"}
    /\ rng <= MaxDrawnWeather
    /\ IF region \notin DOMAIN regions
       THEN /\ last' = [op |-> "forecast", region |-> region, days |-> days,
                        rngBefore |-> rng, dateBefore |-> today, dateAfter |-> today,
                        midnight |-> 0, fresh |-> seeded,
                        status |-> "raised", error |-> "KeyError"]
            /\ UNCHANGED <<rng, rng_absent, today, seeded>>
       ELSE \E r \in {generate_forecast(region, days, rng, today, midnight)} :
                /\ ClockOk(DateAfter(today, days, midnight))
                /\ rng' = r.pos
                /\ rng_absent' = r.pos
                /\ today' = DateAfter(today, days, midnight)
                /\ seeded' = FALSE
                /\ last' = [op |-> "forecast", region |-> region, days |-> days,
                            rngBefore |-> rng, dateBefore |-> today,
                            dateAfter |-> DateAfter(today, days, midnight),
                            midnight |-> IF midnight <= days THEN midnight ELSE 0,
                            fresh |-> seeded,
                            status |-> "returned", forecast |-> r.forecast]
    /\ prev' = IF last.op = "forecast" /\ last.region = region /\ last.days = days
               THEN last ELSE NoCall
    /\ UNCHANGED <<store, market_data, use_llm, state, running>>

\* SustainableFarmingSystem.query_weather_data(region, forecast_days,
\* include_historical), which hands the query to WeatherStation.process_input
WeatherQuery(region, forecast_days, include_historical, midnight) ==
    /\ last.op = "none"
    /\ rng <= MaxDrawnWeather
    /\ \E r \in {process_input(region, forecast_days, include_historical, rng, today, midnight)} :
           /\ ClockOk(r.date)
           /\ rng' = r.pos
           /\ rng_absent' = r.pos
           /\ today' = r.date
           /\ seeded' = (seeded /\ r.pos = rng)
           /\ last' = [op |-> "weather", region |-> region, forecast_days |-> forecast_days,
                       include_historical |-> include_historical,
                       rngBefore |-> rng, dateBefore |-> today, result |-> r.result]
    /\ prev' = NoCall
    /\ UNCHANGED <<store, market_data, use_llm, state, running>>

\* the caller lets go of the result it holds
Discard ==
    /\ last.op # "none"
    /\ last' = NoCall
    /\ prev' = NoCall
    /\ UNCHANGED <<rng, rng_absent, today, seeded, store, market_data, use_llm, state, running>>

\* a constructor that leaves the generator where it is
Construct_unseeded ==
    /\ last.op \in {"none", "forecast"}
    /\ ~seeded
    /\ seeded' = TRUE
    /\ UNCHANGED <<rng, rng_absent, today, last, prev, store, market_data, use_llm, state, running>>

\* WeatherStation.__init__: random.seed(42) puts the process-wide generator
\* back at the start of its stream
Construct ==
    /\ last.op \in {"none", "forecast"}
    /\ ~seeded
    /\ rng' = Seed42
    /\ rng_absent' = Seed42
    /\ seeded' = TRUE
    /\ UNCHANGED <<today, last, prev, store, market_data, use_llm, state, running>>

\* midnight passes between two calls
Tick ==
    /\ last.op = "none"
    /\ ClockOk(today + 1)
    /\ today' = today + 1
    /\ UNCHANGED <<rng, rng_absent, seeded, last, prev, store, market_data, use_llm, state, running>>

\* SustainableFarmingSystem.generate_farm_recommendations(farm_id, region,
\* financial_goal, sustainability_preference); the financial goal changes
\* nothing the call does.  `absent` is what the same call returns on the
\* system constructed with the text generator absent.
Synthesize(farm_id, region, sustainability_preference, answered) ==
    /\ last.op = "none"
    /\ rng <= MaxDrawnSynth
    /\ use_llm \/ answered = {}
    /\ \E r \in {generate_farm_recommendations(farm_id, region, sustainability_preference,
                                                 rng, today, market_data, use_llm, answered)} :
       \E absent \in {IF use_llm
                      THEN generate_farm_recommendations(farm_id, region,
                                                         sustainability_preference, rng_absent,
                                                         today, market_data, FALSE, {})
                      ELSE r} :
           /\ rng' = r.pos
           /\ rng_absent' = absent.pos
           /\ seeded' = (seeded /\ r.pos = rng)
           /\ store' = store \o r.rows
           /\ state' = [agent \in DOMAIN state |->
                           IF r.engines # {}
                           THEN log_action(state[agent], "recommendation_generation")
                           ELSE state[agent]]
           /\ last' = [op |-> "synthesize", farm_id |-> farm_id, region |-> region,
                       sustainability_preference |-> sustainability_preference,
                       sustainability_weight |->
                           SustainabilityWeight(sustainability_preference),
                       economic_weight |-> EconomicWeight(sustainability_preference),
                       answered |-> answered,
                       rngBefore |-> rng, storeBefore |-> store, call |-> r,
                       absent |-> absent]
    /\ prev' = NoCall
    /\ UNCHANGED <<today, market_data, use_llm, running>>

\* SustainableFarmingSystem.reset_database: the tables are dropped and the
\* initial data loaded again; the recommendations table is left empty
ResetDatabase ==
    /\ last.op = "none"
    /\ store # << >>
    /\ store' = << >>
    /\ UNCHANGED <<rng, rng_absent, today, seeded, last, prev, market_data, use_llm, state, running>>


\* the state maps after the three engines are constructed: BaseAgent.__init__
\* starts each with {}, load_farm_data and load_market_data record that their
\* tables were loaded
ConstructedState ==
    [farmer_advisor    |-> update_state([k \in {} |-> TRUE], "farm_data_loaded", TRUE),
     market_researcher |-> update_state([k \in {} |-> TRUE], "market_data_loaded", TRUE),
     weather_station   |-> [k \in {} |-> TRUE]]

\* the request threads, none of them inside generate_forecast
Threads == {1, 2}
NoneRunning == [t \in Threads |-> [at |-> "idle"]]

\* the system after it is constructed
Init ==
    /\ rng = Seed42
    /\ rng_absent = Seed42
    /\ today \in StartDates
    /\ seeded = TRUE
    /\ last = NoCall
    /\ prev = NoCall
    /\ store = << >>
    /\ market_data \in MarketTables
    /\ use_llm \in BOOLEAN
    /\ state = ConstructedState
    /\ running = NoneRunning

\* the preferences a caller supplies: the ends of the range 1..10, two values
\* inside it and one beyond it
Preferences == {1, 5, 6, 10, 15}

Next ==
    \/ \E farm_id \in FarmIds, region \in RegionNames :
          \E sustainability_preference \in Preferences, answered \in LlmAnswers :
             /\ Len(store) <= MaxStored
             /\ Synthesize(farm_id, region, sustainability_preference, answered)
    \/ ResetDatabase
    \/ Discard
    \/ Tick

Spec == Init /\ [][Next]_vars

\* the system with one market table and no text generator
WeatherInit ==
    /\ Init
    /\ market_data = MarketTable
    /\ use_llm = FALSE

WeatherNext ==
    \/ \E region \in RegionNames, days \in -1..MaxDays :
          \E midnight \in Midnights(days) : Forecast(region, days, midnight)
    \/ \E region \in RegionNames, days \in -1..MaxDays, hist \in BOOLEAN :
          \E midnight \in Midnights(days) : WeatherQuery(region, days, hist, midnight)
    \/ Discard
    \/ Construct
    \/ Tick

WeatherSpec == WeatherInit /\ [][WeatherNext]_vars

(***************************************************************************)
(* The weather simulator's contracts.                                      *)
(***************************************************************************)
\* a forecast call for a region of the table and days > 0 that returned
ForecastReturned(c) ==
    c.op = "forecast" /\ c.status = "returned" /\ c.days > 0

\* the dates of a forecast are strictly ascending
DatesAscending(forecast) ==
    \A k \in 1..(Len(forecast) - 1) : YmdLess(forecast[k].date, forecast[k + 1].date)

\* C1 as stated: forecast(region, days) with days > 0 returns exactly `days`
\* samples with strictly ascending dates, sample k dated k days after the date
\* of the call.
C1_DatedFromCallDate ==
    ForecastReturned(last) =>
        /\ Len(last.forecast) = last.days
        /\ DatesAscending(last.forecast)
        /\ \A k \in 1..Len(last.forecast) :
              last.forecast[k].date = Ymd(last.dateBefore + k)

\* C1, amended: forecast(region, days) with days > 0 returns exactly `days`
\* samples with strictly ascending dates; sample k is dated k days after the
\* date the clock shows when the sample is generated, which is the date of the
\* call unless midnight passes during the call (then the samples generated
\* after midnight are dated k + 1 days after the date of the call).
C1_DaysSamplesAscending ==
    ForecastReturned(last) =>
        /\ Len(last.forecast) = last.days
        /\ DatesAscending(last.forecast)
        /\ \A k \in 1..Len(last.forecast) :
              last.forecast[k].date =
                  Ymd(NowAt(last.dateBefore, k, last.midnight) + k)
        /\ last.dateAfter = last.dateBefore =>
              \A k \in 1..Len(last.forecast) :
                  last.forecast[k].date = Ymd(last.dateBefore + k)

\* a forecast of several days during which midnight passed after the first
\* sample was generated
C1_Witness ==
    /\ ForecastReturned(last)
    /\ last.days >= 2
    /\ last.dateAfter # last.dateBefore
    /\ last.forecast[1].date = Ymd(last.dateBefore + 1)
    /\ last.forecast[2].date = Ymd(last.dateBefore + 3)

\* C2 as stated: two calls of forecast with the same region and days, the
\* second right after the first with no draw between them (and on the same
\* date, no midnight passing), return identical sample sequences.
C2_ConsecutiveCallsIdentical ==
    ( /\ ForecastReturned(last)
      /\ prev.op = "forecast"
      /\ ForecastReturned(prev)
      /\ ~last.fresh
      /\ last.dateBefore = prev.dateBefore
      /\ last.dateAfter = prev.dateAfter )
    => last.forecast = prev.forecast

\* C2, amended: two calls of forecast with the same region and days, each the
\* first draw after the generator is seeded with the fixed seed (as the
\* station's constructor does) and made on the same dates, return identical
\* sample sequences.
C2_SeededCallsIdentical ==
    ( /\ ForecastReturned(last)
      /\ prev.op = "forecast"
      /\ ForecastReturned(prev)
      /\ last.fresh /\ prev.fresh
      /\ last.dateBefore = prev.dateBefore
      /\ last.midnight = prev.midnight )
    => last.forecast = prev.forecast

\* two forecast calls, each right after a seeding, on the same date
C2_Witness ==
    /\ ForecastReturned(last)
    /\ prev.op = "forecast"
    /\ ForecastReturned(prev)
    /\ last.fresh /\ prev.fresh
    /\ last.dateBefore = prev.dateBefore
    /\ last.midnight = prev.midnight
    /\ last.days >= 2

\* C7 as stated: a weather query or a forecast request with days <= 0 returns
\* an error result (InvalidRange), not an empty forecast and not an exception.
C7_NonPositiveDaysIsError ==
    /\ ( last.op = "weather" /\ last.region \in DOMAIN regions
         /\ last.forecast_days <= 0 )
       => last.result.status = "error"
    /\ ( last.op = "forecast" /\ last.region \in DOMAIN regions /\ last.days <= 0 )
       => last.status = "error"

\* C8: a weather query for a region outside the table returns an error result
\* that carries no current weather, forecast or historical sample, and leaves
\* the generator in the state it was in.
C8_UnknownRegionGeneratesNothing ==
    ( last.op = "weather" /\ last.region \notin DOMAIN regions )
    => /\ last.result.status = "error"
       /\ DOMAIN last.result = {"status", "message"}
       /\ rng = last.rngBefore
       /\ today = last.dateBefore

\* a query for an unknown region made in mid-stream
C8_Witness ==
    /\ last.op = "weather"
    /\ last.region \notin DOMAIN regions
    /\ last.rngBefore > 0
    /\ last.include_historical

(***************************************************************************)
(* The synthesis' contracts.                                               *)
(***************************************************************************)
\* a synthesis that returned its recommendations
Synthesized ==
    /\ last.op = "synthesize"
    /\ last.call.status = "returned"
    /\ last.call.engines # {}

\* C3 as stated: the ranked actions of a successful synthesis are at most 5,
\* are sorted non-increasing by score, and no scored item left out of them has
\* a score strictly greater than one of them.
C3_RankedTopFive ==
    Synthesized =>
        LET ranked == last.call.result.high_priority_actions
            scored == last.call.scored
        IN  /\ Len(ranked) <= 5
            /\ \A i \in 1..(Len(ranked) - 1) :
                  FloatGe(ranked[i].score, ranked[i + 1].score)
            /\ \A j \in (Len(ranked) + 1)..Len(scored) :
                  \A i \in 1..Len(ranked) :
                     ~FloatLt(ranked[i].score, scored[j].score)

\* C4: the potential score of a successful synthesis lies between the
\* parcel's stored sustainability score, which the summary reports as the
\* current score, and 100.
C4_PotentialScoreInRange ==
    Synthesized =>
        LET summary == last.call.result.sustainability_summary
        IN  /\ summary.current_score = farm_table[last.farm_id].sustainability_score
            /\ summary.current_score <= summary.potential_score
            /\ summary.potential_score <= 100000

\* a synthesis for a parcel so close to 100 that the cap applies
C4_Witness ==
    /\ Synthesized
    /\ last.call.result.sustainability_summary.current_score < 100000
    /\ last.call.result.sustainability_summary.potential_score = 100000
    /\ SumImpact(last.call.result.high_priority_actions) > 0

\* C5 as stated: a synthesis for a parcel id the repository does not hold
\* returns a not-found error result, invokes no engine, makes no draw and
\* appends no row to the recommendations table.
C5_UnknownParcelShortCircuits ==
    ( last.op = "synthesize" /\ last.farm_id \notin DOMAIN farm_table )
    => /\ last.call.status = "returned"
       /\ last.call.result.status = "error"
       /\ last.call.engines = {}
       /\ rng = last.rngBefore
       /\ store = last.storeBefore

\* C6 as stated: a synthesis for an existing parcel and a region that is not
\* in the regions table returns an error-tagged result; it does not raise.
C6_UnknownRegionIsErrorResult ==
    ( /\ last.op = "synthesize"
      /\ last.farm_id \in DOMAIN farm_table
      /\ last.region \notin DOMAIN regions )
    => /\ last.call.status = "returned"
       /\ last.call.result.status = "error"

\* the score the formula gives a recommendation, the weights in tenths and
\* the score in millionths; fields a recommendation lacks count as 0
\* (impacts) and 0.5 (confidence)
FormulaScore(rec, source_weight, preference) ==
    LET s   == Get(rec, "sustainability_impact", 0)
        e   == Get(rec, "economic_impact", Fin(0))
        c   == Get(rec, "confidence", 50)
        w_s == preference
        w_e == 10 - preference
    IN  CASE e.kind = "fin" -> Fin((s * w_s + e.val * w_e) * c * source_weight)
          [] e.kind = "nan" -> NaN
          [] OTHER -> IF w_e = 0 THEN NaN
                      ELSE IF (w_e > 0) = (e.val > 0) THEN PosInf ELSE NegInf

\* every recommendation of the groups of one engine has an entry in `scored`
\* with the score of the formula
ScoredWith(groups, source_weight, preference, scored) ==
    \A g \in 1..Len(groups) : \A k \in 1..Len(groups[g].recommendations) :
        LET rec == groups[g].recommendations[k]
        IN  \E i \in 1..Len(scored) :
               /\ scored[i].action = rec.action
               /\ scored[i].confidence = Get(rec, "confidence", 50)
               /\ scored[i].score = FormulaScore(rec, source_weight, preference)

\* the number of recommendations in a list of groups
RECURSIVE CountRecs(_)
CountRecs(groups) ==
    IF groups = << >> THEN 0
    ELSE Len(groups[1].recommendations) + CountRecs(Tail(groups))

\* C9: every item a synthesis scores has the score
\* (sustainability_impact * w_s + economic_impact * w_e) * confidence * weight
\* with w_s = preference / 10, w_e = 1 - w_s and weight 1.0 for the items of
\* the farming engine, 0.9 for the market engine's and 0.8 for the weather
\* engine's; nothing else is scored.
C9_ScoreFormula ==
    Synthesized =>
        LET result == last.call.result
            scored == last.call.scored
            preference == last.sustainability_preference
        IN  /\ ScoredWith(result.farming_recommendations, 10, preference, scored)
            /\ ScoredWith(result.market_recommendations, 9, preference, scored)
            /\ ScoredWith(result.weather_recommendations, 8, preference, scored)
            /\ Len(scored) = CountRecs(result.farming_recommendations)
                             + CountRecs(result.market_recommendations)
                             + CountRecs(result.weather_recommendations)

\* a synthesis that scored items of the three engines, made with a
\* preference that gives both impacts a weight
C9_Witness ==
    /\ Synthesized
    /\ last.sustainability_preference = 6
    /\ \E i \in 1..Len(last.call.scored) :
          /\ last.call.scored[i].category = "Market Strategy"
          /\ last.call.scored[i].score.kind = "fin"
          /\ last.call.scored[i].score.val > 0
    /\ \E i \in 1..Len(last.call.scored) :
          /\ last.call.scored[i].category = "Weather Management"
          /\ last.call.scored[i].confidence < 85
          /\ last.call.scored[i].score.val > 0
    /\ \E i \in 1..Len(last.call.scored) :
          /\ last.call.scored[i].category = "Farming Practices"
          /\ last.call.scored[i].score.val > 0

\* C10 as stated: whatever preference is supplied, the weights a synthesis
\* scores with satisfy 0.1 <= w_s <= 1, 0 <= w_e <= 0.9 and w_s + w_e = 1.
C10_WeightsClamped ==
    Synthesized =>
        /\ 1 <= last.sustainability_weight /\ last.sustainability_weight <= 10
        /\ 0 <= last.economic_weight /\ last.economic_weight <= 9
        /\ last.sustainability_weight + last.economic_weight = 10

\* a == b on two floats: not-a-number equals nothing
FloatEq(x, y) == x.kind # "nan" /\ y.kind # "nan" /\ x = y

\* the list high_priority as the three calls of extract_recs leave it, before
\* the sort, for the synthesis recorded in `c`
Emitted(c) ==
    HighPriority(c.call.result.farming_recommendations,
                 c.call.result.market_recommendations,
                 c.call.result.weather_recommendations,
                 c.sustainability_preference)

\* the positions of the emitted items in the order the sort leaves them in
SortedPositions(emitted) ==
    LET keyed == [i \in 1..Len(emitted) |-> [key |-> emitted[i].score, item |-> i]]
        sorted == SortReverse(keyed)
    IN  [k \in 1..Len(sorted) |-> sorted[k].item]

\* C11 as stated: in the sorted list of a successful synthesis, of two items
\* with equal score the one emitted earlier (farming before market before
\* weather, each in its engine's order) comes first, and so it does in the
\* ranked actions.
C11_TiesInEmissionOrder ==
    Synthesized =>
        \A emitted \in {Emitted(last)} : \A at \in {SortedPositions(emitted)} :
            /\ last.call.scored = [k \in 1..Len(emitted) |-> emitted[at[k]]]
            /\ \A a, b \in 1..Len(emitted) :
                  (a < b /\ FloatEq(emitted[at[a]].score, emitted[at[b]].score))
                  => at[a] < at[b]

\* item x dominates item y: same source, economic impact and confidence, and
\* a strictly greater sustainability impact
Dominates(x, y) ==
    /\ x.category = y.category
    /\ x.economic_impact = y.economic_impact
    /\ x.confidence = y.confidence
    /\ x.sustainability_impact > y.sustainability_impact

\* C12 as stated: in a successful synthesis with a preference in 1..10, an
\* item that has the same economic impact, confidence and source weight as
\* another and a strictly greater sustainability impact is never ranked below
\* the other.
C12_DominatingItemNotBelow ==
    (Synthesized /\ last.sustainability_preference \in 1..10) =>
        \A emitted \in {Emitted(last)} : \A at \in {SortedPositions(emitted)} :
            \A a, b \in 1..Len(emitted) :
                Dominates(emitted[at[a]], emitted[at[b]]) => a < b

\* C13 as stated: in a sequence of synthesize calls started from the same
\* seed, every call ends as it does on the system without the text generator
\* (it does not fail where that one succeeds) and returns the same ranked
\* actions and sustainability summary, whether the text generator is
\* reachable and answers, is absent, or answers every request with an error.
C13_CollaboratorNeverInfluences ==
    last.op = "synthesize" =>
        /\ last.call.status = last.absent.status
        /\ Synthesized =>
              /\ last.call.result.high_priority_actions
                     = last.absent.result.high_priority_actions
              /\ last.call.result.sustainability_summary
                     = last.absent.result.sustainability_summary

(***************************************************************************)
(* The farmer advisor's analyses (agents/farmer_advisor.py).  A parcel's   *)
(* soil pH, soil moisture, temperature and rainfall are in tenths (6.7 is  *)
(* 67, 28.5 is 285); a measurement that is None is << >> and one that is   *)
(* given is <<x>>.  Impacts of the analyses' recommendations are in        *)
(* hundredths, sustainability scores in thousandths.                       *)
(***************************************************************************)
\* the value of a key the result dict does not have
NoKey == "(no key)"

\* one recommendation of an analysis
AnalysisRec(issue, action, sustainability_impact, cost_impact) ==
    [issue |-> issue, action |-> action,
     sustainability_impact |-> sustainability_impact, cost_impact |-> cost_impact]

\* the pH branch of analyze_soil_data
ph_analysis(soil_ph) ==
    IF soil_ph = << >> THEN [status |-> NoKey, recommendations |-> << >>]
    ELSE IF soil_ph[1] < 55
    THEN [status |-> "acidic",
          recommendations |-> << AnalysisRec("Low soil pH (acidic)",
                                   "Apply agricultural lime to raise pH", 150, -80) >>]
    ELSE IF soil_ph[1] > 75
    THEN [status |-> "alkaline",
          recommendations |-> << AnalysisRec("High soil pH (alkaline)",
                                   "Apply organic matter or elemental sulfur to lower pH",
                                   120, -50) >>]
    ELSE [status |-> "optimal", recommendations |-> << >>]

\* the moisture branch with the upper end of the range counted as wet
moisture_analysis_wet_from_40(soil_moisture) ==
    IF soil_moisture = << >> THEN [status |-> NoKey, recommendations |-> << >>]
    ELSE IF soil_moisture[1] < 200
    THEN [status |-> "dry",
          recommendations |-> << AnalysisRec("Low soil moisture",
                                   "Implement drip irrigation system and mulching to conserve water",
                                   200, -120) >>]
    ELSE IF soil_moisture[1] >= 400
    THEN [status |-> "wet",
          recommendations |-> << AnalysisRec("High soil moisture",
                                   "Improve drainage and consider raised beds", 100, -90) >>]
    ELSE [status |-> "optimal", recommendations |-> << >>]

\* the moisture branch of analyze_soil_data
moisture_analysis(soil_moisture) ==
    IF soil_moisture = << >> THEN [status |-> NoKey, recommendations |-> << >>]
    ELSE IF soil_moisture[1] < 200
    THEN [status |-> "dry",
          recommendations |-> << AnalysisRec("Low soil moisture",
                                   "Implement drip irrigation system and mulching to conserve water",
                                   200, -120) >>]
    ELSE IF soil_moisture[1] > 400
    THEN [status |-> "wet",
          recommendations |-> << AnalysisRec("High soil moisture",
                                   "Improve drainage and consider raised beds", 100, -90) >>]
    ELSE [status |-> "optimal", recommendations |-> << >>]

\* the result dict of analyze_soil_data from its two branches
soil_results(soil_ph, soil_moisture, ph, moisture) ==
    [soil_ph |-> soil_ph, soil_moisture |-> soil_moisture,
     ph_status |-> ph.status, moisture_status |-> moisture.status,
     recommendations |-> ph.recommendations \o moisture.recommendations]

\* FarmerAdvisor.analyze_soil_data
analyze_soil_data(soil_ph, soil_moisture) ==
    soil_results(soil_ph, soil_moisture, ph_analysis(soil_ph), moisture_analysis(soil_moisture))

\* the temperature branch of analyze_climate_data
temperature_analysis(temperature) ==
    IF temperature = << >> THEN [category |-> NoKey, suitable_crops |-> << >>]
    ELSE IF temperature[1] < 180
    THEN [category |-> "cool", suitable_crops |-> <<"Wheat", "Barley", "Oats">>]
    ELSE IF temperature[1] > 300
    THEN [category |-> "hot", suitable_crops |-> <<"Corn", "Sorghum", "Cotton">>]
    ELSE [category |-> "moderate", suitable_crops |-> <<"Rice", "Soybean", "Corn", "Wheat">>]

\* the rainfall branch of analyze_climate_data
rainfall_analysis(rainfall) ==
    IF rainfall = << >> THEN [category |-> NoKey, recommendations |-> << >>]
    ELSE IF rainfall[1] < 1000
    THEN [category |-> "low",
          recommendations |-> << AnalysisRec("Low rainfall",
                                   "Implement water harvesting and drought-resistant crops",
                                   250, -150) >>]
    ELSE IF rainfall[1] > 2500
    THEN [category |-> "high",
          recommendations |-> << AnalysisRec("High rainfall",
                                   "Ensure good drainage and consider raised beds", 100, -70) >>]
    ELSE [category |-> "moderate", recommendations |-> << >>]

\* the result dict of analyze_climate_data from its two branches
climate_results(temperature, rainfall, temp, rain) ==
    [temperature_c |-> temperature, rainfall_mm |-> rainfall,
     temperature_category |-> temp.category, suitable_crops |-> temp.suitable_crops,
     rainfall_category |-> rain.category, recommendations |-> rain.recommendations]

\* FarmerAdvisor.analyze_climate_data
analyze_climate_data(temperature, rainfall) ==
    climate_results(temperature, rainfall, temperature_analysis(temperature),
                    rainfall_analysis(rainfall))


\* a quotient of two floats the code computes, kept as its two terms
Ratio(num, den) == [num |-> num, den |-> den]

\* the recommendations of analyze_farming_practices for a farm that has n
\* similar farms with the given sums: x > mean * 1.2 is 10 n x > 12 sum
practice_recommendations(row, n, fertilizer, pesticide, yield) ==
    (IF 10 * n * row.fertilizer_usage_kg > 12 * fertilizer
     THEN << AnalysisRec("High fertilizer usage",
               "Consider precision agriculture techniques to optimize fertilizer application",
               200, 50) >>
     ELSE << >>)
    \o (IF 10 * n * row.pesticide_usage_kg > 12 * pesticide
        THEN << AnalysisRec("High pesticide usage",
                  "Implement integrated pest management (IPM) techniques", 250, 30) >>
        ELSE << >>)
    \o (IF 10 * n * row.crop_yield_ton < 8 * yield
        THEN << AnalysisRec("Below average crop yield",
                  "Consider soil testing and targeted nutrient management", 100, -20) >>
        ELSE << >>)

\* current_yield / usage if usage else 0
efficiency(yield, usage) == IF usage # 0 THEN Ratio(yield, usage) ELSE Ratio(0, 1)

\* (efficiency / avg_efficiency - 1) * 100 if avg_efficiency else 0, where
\* avg_efficiency is avg_yield / avg_usage if avg_usage else 0
vs_avg_efficiency(yield, usage, avg_yield, avg_usage) ==
    IF avg_usage = 0 \/ avg_yield = 0 THEN Ratio(0, 1)
    ELSE IF usage = 0 THEN Ratio(-100, 1)
    ELSE Ratio(100 * (yield * avg_usage - usage * avg_yield), usage * avg_yield)

\* the result dict of analyze_farming_practices for a farm with similar farms
practice_results(row, n, fertilizer, pesticide, yield, sustainability) ==
    [status |-> NoKey,
     benchmarks |-> [avg_fertilizer_usage_kg |-> Ratio(fertilizer, n),
                     avg_pesticide_usage_kg |-> Ratio(pesticide, n),
                     avg_crop_yield_ton |-> Ratio(yield, n),
                     avg_sustainability_score |-> Ratio(sustainability, n)],
     current_performance |-> [fertilizer_usage_kg |-> row.fertilizer_usage_kg,
                              pesticide_usage_kg |-> row.pesticide_usage_kg,
                              crop_yield_ton |-> row.crop_yield_ton,
                              sustainability_score |-> row.sustainability_score],
     efficiency_metrics |->
         [fertilizer_efficiency |-> efficiency(row.crop_yield_ton, row.fertilizer_usage_kg),
          pesticide_efficiency |-> efficiency(row.crop_yield_ton, row.pesticide_usage_kg),
          vs_avg_fertilizer_efficiency |->
              vs_avg_efficiency(row.crop_yield_ton, row.fertilizer_usage_kg, yield, fertilizer),
          vs_avg_pesticide_efficiency |->
              vs_avg_efficiency(row.crop_yield_ton, row.pesticide_usage_kg, yield, pesticide)],
     recommendations |-> practice_recommendations(row, n, fertilizer, pesticide, yield)]

\* the farms of the table that grow crop_type
SimilarFarms(farm_rows, crop_type) ==
    SelectSeq(farm_rows, LAMBDA farm : farm.crop_type = crop_type)

\* FarmerAdvisor.analyze_farming_practices, from the similar farms
practices_of(row, similar_farms) ==
    IF similar_farms = << >>
    THEN [status |-> "insufficient_data"]
    ELSE practice_results(row, Len(similar_farms),
                          SumField(similar_farms, "fertilizer_usage_kg"),
                          SumField(similar_farms, "pesticide_usage_kg"),
                          SumField(similar_farms, "crop_yield_ton"),
                          SumField(similar_farms, "sustainability_score"))

\* FarmerAdvisor.analyze_farming_practices
analyze_farming_practices(row, farm_rows) ==
    practices_of(row, SimilarFarms(farm_rows, row.crop_type))

\* FarmerAdvisor.generate_message
generate_message(sustainability_category, improvement_potential) ==
    IF sustainability_category = "poor" /\ improvement_potential = "high"
    THEN "Your farm's sustainability score needs significant improvement."
    ELSE IF sustainability_category = "moderate" /\ improvement_potential = "medium"
    THEN "Your farm has a moderate sustainability score."
    ELSE "Your farm shows good sustainability practices."

\* the first three recommendations in the order they were merged
TopThreeAsMerged(all_recommendations) ==
    SubSeq(all_recommendations, 1, Min(3, Len(all_recommendations)))

\* sorted(all_recommendations, key=sustainability_impact, reverse=True)[:3]
TopThreeByImpact(all_recommendations) ==
    LET keyed  == [i \in 1..Len(all_recommendations) |->
                      [key |-> Fin(all_recommendations[i].sustainability_impact),
                       item |-> all_recommendations[i]]]
        sorted == SortReverse(keyed)
    IN  [k \in 1..Min(3, Len(sorted)) |-> sorted[k].item]

\* the categories with "poor" reaching up to 50
sustainability_category_poor_below_50(sustainability_score) ==
    IF sustainability_score < 50000
    THEN [sustainability_category |-> "poor", improvement_potential |-> "high"]
    ELSE IF sustainability_score < 60000
    THEN [sustainability_category |-> "moderate", improvement_potential |-> "medium"]
    ELSE [sustainability_category |-> "good", improvement_potential |-> "low"]

\* the category and improvement potential of a sustainability score
sustainability_category(sustainability_score) ==
    IF sustainability_score < 30000
    THEN [sustainability_category |-> "poor", improvement_potential |-> "high"]
    ELSE IF sustainability_score < 60000
    THEN [sustainability_category |-> "moderate", improvement_potential |-> "medium"]
    ELSE [sustainability_category |-> "good", improvement_potential |-> "low"]

\* the result dict of generate_overall_assessment
assessment(all_recommendations, category) ==
    [sustainability_category |-> category.sustainability_category,
     improvement_potential |-> category.improvement_potential,
     high_priority_recommendations |-> TopThreeByImpact(all_recommendations),
     overall_message |-> generate_message(category.sustainability_category,
                                          category.improvement_potential)]

\* an overall assessment that merges nothing unless the practice analysis
\* carries recommendations
generate_overall_assessment_practices_required(soil_analysis, climate_analysis, practice_analysis, sustainability_score) ==
    assessment(IF practice_analysis.status = NoKey
               THEN soil_analysis.recommendations \o climate_analysis.recommendations
                       \o practice_analysis.recommendations
               ELSE << >>,
               sustainability_category(sustainability_score))

\* FarmerAdvisor.generate_overall_assessment
generate_overall_assessment(soil_analysis, climate_analysis, practice_analysis, sustainability_score) ==
    assessment(soil_analysis.recommendations \o climate_analysis.recommendations
                  \o (IF practice_analysis.status = NoKey
                      THEN practice_analysis.recommendations ELSE << >>),
               sustainability_category(sustainability_score))

\* the dict analyze_farm compiles from the three analyses
compile_analysis(row, soil_analysis, climate_analysis, practice_analysis) ==
    [soil_analysis |-> soil_analysis,
     climate_analysis |-> climate_analysis,
     practice_analysis |-> practice_analysis,
     sustainability_score |-> row.sustainability_score,
     overall_assessment |-> generate_overall_assessment(soil_analysis, climate_analysis,
                                practice_analysis, row.sustainability_score)]

\* FarmerAdvisor.analyze_farm for a row of the table
analyze_farm(row, farm_rows) ==
    compile_analysis(row,
                     analyze_soil_data(<<row.soil_ph>>, <<row.soil_moisture>>),
                     analyze_climate_data(<<row.temperature_c>>, <<row.rainfall_mm>>),
                     analyze_farming_practices(row, farm_rows))

\* FarmerAdvisor.process_input: the analysis of the farm of farm_id, or, when
\* farm_id is falsy, the basic analysis of the measurements given.  The farm
\* is read from the farm_data table as it is when the call is made (table);
\* farm_rows is self.farm_data, the rows the advisor loaded when constructed.
advisor_process_input(input_data, farm_rows, table) ==
    IF input_data.farm_id # 0
    THEN LET found == SelectSeq(table, LAMBDA farm : farm.farm_id = input_data.farm_id)
         IN  IF found = << >>
             THEN [status |-> "error", message |-> <<"Farm ID", input_data.farm_id, "not found">>]
             ELSE [status |-> "success", message |-> << >>, farm_data |-> found[1],
                   analysis |-> analyze_farm(found[1], farm_rows)]
    ELSE [status |-> "success", message |-> <<"New farm registered. Basic analysis provided.">>,
          soil_analysis |-> analyze_soil_data(input_data.soil_ph, input_data.soil_moisture),
          climate_analysis |-> analyze_climate_data(input_data.temperature_c,
                                                    input_data.rainfall_mm)]


\* a row of the farm_data table with its measurements in tenths
Parcel(farm_id, soil_ph, soil_moisture, temperature_c, rainfall_mm, crop_type, fertilizer_usage_kg, pesticide_usage_kg, crop_yield_ton, sustainability_score) ==
    [farm_id |-> farm_id, soil_ph |-> soil_ph, soil_moisture |-> soil_moisture,
     temperature_c |-> temperature_c, rainfall_mm |-> rainfall_mm, crop_type |-> crop_type,
     fertilizer_usage_kg |-> fertilizer_usage_kg, pesticide_usage_kg |-> pesticide_usage_kg,
     crop_yield_ton |-> crop_yield_ton, sustainability_score |-> sustainability_score]

\* the farm_data tables the advisor is constructed on: parcels on and beside
\* the thresholds of the analyses, two of one crop and one alone in its crop
ParcelTables ==
    { << Parcel(1, 67, 285, 242, 1805, "Rice", 100, 5, 6, 45000),
         Parcel(2, 54, 199, 179, 999, "Rice", 200, 20, 3, 29999),
         Parcel(3, 76, 401, 301, 2501, "Wheat", 120, 10, 4, 60000) >>,
      << Parcel(1, 55, 200, 180, 1000, "Corn", 0, 0, 5, 30000),
         Parcel(2, 75, 400, 300, 2500, "Corn", 150, 12, 0, 59999),
         Parcel(3, 56, 399, 299, 2499, "Soybean", 90, 9, 3, 0) >> }

\* the measurements a farmer registering a new farm gives, None included
SoilPhs == {<< >>, <<54>>, <<55>>, <<56>>, <<67>>, <<74>>, <<75>>, <<76>>}
SoilMoistures == {<< >>, <<199>>, <<200>>, <<285>>, <<400>>, <<401>>}
Temperatures == {<< >>, <<179>>, <<180>>, <<242>>, <<300>>, <<301>>}
Rainfalls == {<< >>, <<999>>, <<1000>>, <<1805>>, <<2500>>, <<2501>>}

\* the inputs of the advisor: an existing farm by its id (one id no row has),
\* or the measurements of a new farm
AdvisorInputs ==
    [farm_id : {1, 2, 3, 99}, soil_ph : {<< >>}, soil_moisture : {<< >>},
     temperature_c : {<< >>}, rainfall_mm : {<< >>}]
    \cup [farm_id : {0}, soil_ph : SoilPhs, soil_moisture : SoilMoistures,
          temperature_c : Temperatures, rainfall_mm : Rainfalls]

\* FarmerAdvisor.process_input(input_data) on an advisor constructed on the
\* rows farm_rows, with the farm_data table holding `table` when called
AdvisorQuery(input_data, farm_rows, table) ==
    /\ last.op = "none"
    \* (bound) a new farm is registered only with an advisor that has processed
    \* no input yet
    /\ input_data.farm_id # 0 \/ "farmer_input" \notin DOMAIN state.farmer_advisor
    /\ \E r \in {advisor_process_input(input_data, farm_rows, table)} :
          /\ last' = [op |-> "analyze", input_data |-> input_data, farm_rows |-> farm_rows,
                      table |-> table, result |-> r]
          /\ state' = [state EXCEPT !.farmer_advisor =
                          IF input_data.farm_id # 0 /\ r.status = "success"
                          THEN update_state(update_state(@, "farmer_input", input_data),
                                            "current_farm", r.farm_data)
                          ELSE update_state(@, "farmer_input", input_data)]
    /\ prev' = NoCall
    /\ UNCHANGED <<rng, rng_absent, today, seeded, store, market_data, use_llm, running>>

\* the advisor's calls; the table may have been loaded again, with other
\* rows, since the advisor was constructed
AdvisorNext ==
    \/ \E input_data \in AdvisorInputs, farm_rows \in ParcelTables, table \in ParcelTables :
          AdvisorQuery(input_data, farm_rows, table)
    \/ Discard

AdvisorSpec == WeatherInit /\ [][AdvisorNext]_vars

\* the soil analysis in the result the caller holds: that of the farm
\* analysed, or that of the measurements of a new farm
SoilAnalysisOf(c) ==
    IF c.input_data.farm_id # 0 THEN c.result.analysis.soil_analysis
    ELSE c.result.soil_analysis

\* the caller holds an analysis
Analysed == last.op = "analyze" /\ last.result.status = "success"

\* C14: whenever the soil pH analysed is strictly between 5.5 and 7.5 and the
\* soil moisture is between 20 and 40, ends included, the soil analysis has
\* ph_status "optimal", moisture_status "optimal" and no recommendation.
C14_OptimalSoilNoRecommendation ==
    Analysed =>
        \A soil \in {SoilAnalysisOf(last)} :
            ( /\ soil.soil_ph # << >> /\ soil.soil_moisture # << >>
              /\ soil.soil_ph[1] > 55 /\ soil.soil_ph[1] < 75
              /\ soil.soil_moisture[1] >= 200 /\ soil.soil_moisture[1] <= 400 )
            => /\ soil.ph_status = "optimal"
               /\ soil.moisture_status = "optimal"
               /\ soil.recommendations = << >>

\* a new farm with pH 7.4 and moisture 40, the upper end, has been analysed
C14_Witness ==
    /\ Analysed
    /\ last.input_data.farm_id = 0
    /\ last.input_data.soil_ph = <<74>>
    /\ last.input_data.soil_moisture = <<400>>
    /\ last.result.soil_analysis.moisture_status = "optimal"
    /\ last.result.soil_analysis.recommendations = << >>


\* the farm analysed has pH 6.7, moisture 28.5, temperature 24.2, rainfall
\* 180.5, crop Rice and sustainability score 45
RiceParcelAnalysed ==
    /\ Analysed
    /\ last.input_data.farm_id # 0
    /\ last.result.farm_data.soil_ph = 67
    /\ last.result.farm_data.soil_moisture = 285
    /\ last.result.farm_data.temperature_c = 242
    /\ last.result.farm_data.rainfall_mm = 1805
    /\ last.result.farm_data.crop_type = "Rice"
    /\ last.result.farm_data.sustainability_score = 45000

\* C18: the analysis of a parcel with pH 6.7, moisture 28.5, temperature 24.2,
\* rainfall 180.5, crop Rice and sustainability score 45 has soil statuses
\* optimal and optimal, temperature category moderate with Rice among the
\* suitable crops, rainfall category moderate with no climate recommendation,
\* and overall sustainability category moderate.
C18_RiceParcelAnalysis ==
    RiceParcelAnalysed =>
        \A analysis \in {last.result.analysis} :
            /\ analysis.soil_analysis.ph_status = "optimal"
            /\ analysis.soil_analysis.moisture_status = "optimal"
            /\ analysis.climate_analysis.temperature_category = "moderate"
            /\ \E i \in DOMAIN analysis.climate_analysis.suitable_crops :
                  analysis.climate_analysis.suitable_crops[i] = "Rice"
            /\ analysis.climate_analysis.rainfall_category = "moderate"
            /\ analysis.climate_analysis.recommendations = << >>
            /\ analysis.overall_assessment.sustainability_category = "moderate"

\* the parcel has been analysed, with the practices of the other Rice farm
\* to compare it with
C18_Witness ==
    /\ RiceParcelAnalysed
    /\ last.result.analysis.practice_analysis.status = NoKey
    /\ last.result.analysis.sustainability_score = 45000
    /\ last.result.analysis.overall_assessment.improvement_potential = "medium"


(***************************************************************************)
(* Market queries (MarketResearcher.process_input) and the market status.  *)
(***************************************************************************)
\* str.lower() on the product names a caller gives
Lower(product) ==
    CASE product = "Wheat" -> "wheat"
      [] product = "Rice" -> "rice"
      [] product = "Corn" -> "corn"
      [] product = "Soybean" -> "soybean"
      [] product = "Barley" -> "barley"
      [] OTHER -> product

\* the first of the seasonal factors of `rows` with the highest mean of
\* `field` (max over the groups of groupby("seasonal_factor"))
RECURSIVE HighestSeason(_, _, _, _)
HighestSeason(rows, field, order, best) ==
    IF order = << >> THEN best
    ELSE IF SeasonRows(rows, order[1]) = << >>
    THEN HighestSeason(rows, field, Tail(order), best)
    ELSE IF best = "" \/ Mean(SeasonRows(rows, order[1]), field) > Mean(SeasonRows(rows, best), field)
    THEN HighestSeason(rows, field, Tail(order), order[1])
    ELSE HighestSeason(rows, field, Tail(order), best)

\* MarketResearcher.generate_seasonal_recommendations
generate_seasonal_recommendations(highest_price_season, highest_demand_season) ==
    << [focus |-> <<"Seasonal Timing">>, action |-> <<"target season", highest_price_season>>,
        economic_impact |-> Fin(160), confidence |-> 80] >>
    \o (IF highest_demand_season # highest_price_season
        THEN << [focus |-> <<"Production Planning">>,
                 action |-> <<"plan harvest for", highest_demand_season>>,
                 economic_impact |-> Fin(140), confidence |-> 75] >>
        ELSE << >>)

\* the dict analyze_seasonal_factors returns, from the two seasons
seasonal_results(highest_price_season, highest_demand_season) ==
    [highest_price_season |-> highest_price_season,
     highest_demand_season |-> highest_demand_season,
     recommendations |-> generate_seasonal_recommendations(highest_price_season,
                                                           highest_demand_season)]

\* MarketResearcher.analyze_seasonal_factors
analyze_seasonal_factors(rows) ==
    seasonal_results(HighestSeason(rows, "market_price_per_ton", SeasonalFactorOrder, ""),
                     HighestSeason(rows, "demand_index", SeasonalFactorOrder, ""))

\* MarketResearcher.analyze_product_market for the short term
analyze_product_market(rows) ==
    [product |-> rows[1].product,
     avg_market_price |-> Mean(rows, "market_price_per_ton"),
     avg_demand_index |-> Mean(rows, "demand_index"),
     avg_supply_index |-> Mean(rows, "supply_index"),
     market_status |-> determine_market_status(Mean(rows, "demand_index"),
                                               Mean(rows, "supply_index")),
     seasonal_analysis |-> analyze_seasonal_factors(rows),
     demand_trend |-> analyze_demand_trend(rows),
     price_forecast |-> forecast_price(rows),
     market_recommendations |-> generate_market_recommendations(rows)]

\* the rows whose product is `product` whatever the case of the letters
ProductRowsAnyCase(md, product) ==
    SelectSeq(md, LAMBDA row : Lower(row.product) = Lower(product))

\* what process_input returns for a product, from the rows of the product
product_response(product, product_data) ==
    IF product_data = << >>
    THEN [status |-> "error", product |-> product]
    ELSE [status |-> "success", product |-> product,
          market_analysis |-> analyze_product_market(product_data)]

\* MarketResearcher.process_input({"product": product}); "" is no product
market_process_input(product, md) ==
    IF product # ""
    THEN product_response(product, ProductRowsAnyCase(md, product))
    ELSE [status |-> "success", product |-> "",
          market_overview |-> generate_market_overview(md)]


\* the mean demand and supply indices of the Wheat rows of the tables below:
\* on and beside the two thresholds of the ratio, with and without supply
QueryDemands == {60, 79, 80, 81, 100, 119, 120, 121, 150}
QuerySupplies == {0, 100}

\* market tables whose two Wheat rows have the given mean demand and supply
QueryTables ==
    { << MarketRow("Wheat", 320, d + 20, s, 310,  95, "High"),
         MarketRow("Wheat", 280, d - 20, s, 290,  95, "Low"),
         MarketRow("Rice",  400, 150, 100, 400, 110, "Medium") >> :
         d \in QueryDemands, s \in QuerySupplies }

\* the products a caller asks for: those of the tables, one in lower case,
\* one no table has, and none
QueryProducts == {"", "Wheat", "Rice", "rice", "Corn", "Soybean", "Barley"}

\* the demands and supplies determine_market_status is called with: on and
\* beside the thresholds for supplies 100 and 125, no supply, negative values
StatusDemands == {-50, 0, 79, 80, 81, 100, 119, 120, 121, 150, 151}
StatusSupplies == {-100, 0, 100, 125}

\* MarketResearcher.process_input({"product": product})
MarketQuery(product) ==
    /\ last.op = "none"
    /\ \E r \in {market_process_input(product, market_data)} :
          last' = [op |-> "market", product |-> product, result |-> r]
    /\ state' = [state EXCEPT !.market_researcher =
                    update_state(@, "market_query", [product |-> product])]
    /\ prev' = NoCall
    /\ UNCHANGED <<rng, rng_absent, today, seeded, store, market_data, use_llm, running>>

\* MarketResearcher.determine_market_status(demand, supply); the caller keeps
\* the status it was given before
DetermineStatus(demand, supply) ==
    /\ last.op \in {"none", "status"}
    \* (bound) the engine asked has processed no query yet; the function reads
    \* no state
    /\ "market_query" \notin DOMAIN state.market_researcher
    /\ last' = [op |-> "status", demand |-> demand, supply |-> supply,
                result |-> determine_market_status(demand, supply)]
    /\ prev' = last
    /\ UNCHANGED <<rng, rng_absent, today, seeded, store, market_data, use_llm, state, running>>

\* the market engine constructed on one of the tables
MarketInit ==
    /\ rng = Seed42
    /\ rng_absent = Seed42
    /\ today \in StartDates
    /\ seeded = TRUE
    /\ last = NoCall
    /\ prev = NoCall
    /\ store = << >>
    /\ market_data \in MarketTables \cup QueryTables
    /\ use_llm = FALSE
    /\ state = ConstructedState
    /\ running = NoneRunning

MarketNext ==
    \/ \E product \in QueryProducts : MarketQuery(product)
    \/ \E demand \in StatusDemands, supply \in StatusSupplies : DetermineStatus(demand, supply)
    \/ Discard

MarketSpec == MarketInit /\ [][MarketNext]_vars

\* oversupplied < balanced < undersupplied
StatusRank(status) ==
    CASE status = "oversupplied" -> 0
      [] status = "balanced" -> 1
      [] status = "undersupplied" -> 2

\* C15: of two statuses determined for the same supply above 0, the one for
\* the demand that is not the smaller is never closer to "oversupplied", in
\* the order oversupplied < balanced < undersupplied.
C15_StatusMonotonicInDemand ==
    ( /\ last.op = "status" /\ prev.op = "status"
      /\ last.supply = prev.supply /\ last.supply > 0
      /\ prev.demand <= last.demand )
    => StatusRank(prev.result) <= StatusRank(last.result)

\* for supply 125 the status of demand 100 and then of demand 151 has been
\* determined, and it moved from balanced to undersupplied
C15_Witness ==
    /\ last.op = "status" /\ prev.op = "status"
    /\ prev.supply = 125 /\ last.supply = 125
    /\ prev.demand = 100 /\ last.demand = 151
    /\ prev.result = "balanced" /\ last.result = "undersupplied"

\* C16: the status is "undersupplied" when demand / supply is above 1.2,
\* "oversupplied" when it is below 0.8 and "balanced" otherwise, 0.8 and 1.2
\* included; with a supply of 0 or less it is "undersupplied" whatever the
\* demand, and no division by zero is made.
C16_StatusByRatio ==
    last.op = "status" =>
        IF last.supply <= 0 THEN last.result = "undersupplied"
        ELSE /\ (5 * last.demand > 6 * last.supply) => last.result = "undersupplied"
             /\ (5 * last.demand < 4 * last.supply) => last.result = "oversupplied"
             /\ (5 * last.demand <= 6 * last.supply /\ 5 * last.demand >= 4 * last.supply)
                   => last.result = "balanced"

\* the status has been determined on the upper threshold (150 / 125 = 1.2)
\* after it was determined with no supply
C16_Witness ==
    /\ last.op = "status" /\ prev.op = "status"
    /\ prev.supply = 0 /\ prev.result = "undersupplied"
    /\ last.demand = 150 /\ last.supply = 125 /\ last.result = "balanced"

\* the market recommendations in the result the caller holds have an item
\* with focus "Production Increase"
HasProductionIncrease(c) ==
    \E i \in DOMAIN c.result.market_analysis.market_recommendations :
        c.result.market_analysis.market_recommendations[i].focus = <<"Production Increase">>

\* C17: the market recommendations of a product whose status is
\* "undersupplied" (as it is for mean demand 150 and mean supply 100) have an
\* item with focus "Production Increase", and those of a product whose status
\* is balanced or oversupplied have none.
C17_ProductionIncreaseIffUndersupplied ==
    (last.op = "market" /\ last.product # "" /\ last.result.status = "success") =>
        /\ (last.result.market_analysis.avg_demand_index = 150
              /\ last.result.market_analysis.avg_supply_index = 100)
           => last.result.market_analysis.market_status = "undersupplied"
        /\ HasProductionIncrease(last)
              <=> last.result.market_analysis.market_status = "undersupplied"

\* the Wheat rows with mean demand 150 and mean supply 100 have been analysed
C17_Witness ==
    /\ last.op = "market" /\ last.product = "Wheat"
    /\ last.result.status = "success"
    /\ last.result.market_analysis.avg_demand_index = 150
    /\ last.result.market_analysis.avg_supply_index = 100
    /\ market_data[1].demand_index = 170 /\ market_data[2].demand_index = 130
    /\ HasProductionIncrease(last)


\* C19: in the summary of a synthesis the potential improvement is 0.2 times
\* the sum of the sustainability impacts of the ranked actions returned (2
\* thousandths of a point for each hundredth of impact; the potential score is
\* the current score plus it, capped at 100); the improvement percentage is
\* the potential improvement / the current score * 100 when the current score
\* is not 0 (here in thousandths of a percent, rounded down) and 0 when it is
\* 0; and no synthesis ends in a division by zero.
C19_ImprovementSummary ==
    /\ (last.op = "synthesize" /\ last.call.status = "raised")
          => last.call.error # "ZeroDivisionError"
    /\ Synthesized =>
          \A summary \in {last.call.result.sustainability_summary} :
          \A potential_improvement \in {2 * SumImpact(last.call.result.high_priority_actions)} :
              /\ summary.potential_score
                     = Min(100000, summary.current_score + potential_improvement)
              /\ summary.current_score # 0 =>
                    /\ summary.improvement_percentage * summary.current_score
                           <= potential_improvement * 100000
                    /\ potential_improvement * 100000
                           < (summary.improvement_percentage + 1) * summary.current_score
              /\ summary.current_score = 0 => summary.improvement_percentage = 0

\* a synthesis for the parcel whose current score is 0 returned ranked
\* actions with sustainability impacts and an improvement percentage of 0
C19_Witness ==
    /\ Synthesized
    /\ last.call.result.sustainability_summary.current_score = 0
    /\ SumImpact(last.call.result.high_priority_actions) > 0
    /\ last.call.result.sustainability_summary.potential_score > 0
    /\ last.call.result.sustainability_summary.improvement_percentage = 0


\* C20: every item a synthesis scores, from any of the three engines, has a
\* confidence between 0 and 1 (0 and 100 hundredths), the short-term weather
\* items with their confidence of 0.85 less 0.05 a day of forecast distance
\* and the items given the default of 0.5 included.
C20_ConfidenceInUnitInterval ==
    Synthesized =>
        \A i \in DOMAIN last.call.scored :
            /\ last.call.scored[i].confidence >= 0
            /\ last.call.scored[i].confidence <= 100

\* a synthesis scored items of the three engines, one of them a short-term
\* weather item for the third day or a later one, with a confidence of 0.75
\* or less
C20_Witness ==
    /\ Synthesized
    /\ \E i, j, k \in DOMAIN last.call.scored :
          /\ last.call.scored[i].category = "Farming Practices"
          /\ last.call.scored[j].category = "Market Strategy"
          /\ last.call.scored[k].category = "Weather Management"
          /\ last.call.scored[k].focus[1] \in {"Heavy Rain Management", "Drought Management"}
          /\ last.call.scored[k].focus[2] >= 3
          /\ last.call.scored[k].confidence <= 75


(***************************************************************************)
(* A session: queries to the farming and market engines, which write      *)
(* their state maps, between syntheses.                                    *)
(***************************************************************************)
\* the inputs of a session: an existing and a missing parcel, two regions,
\* the two ends of the preference range, the farms asked about by their id
SessionNext ==
    \/ \E farm_id \in {1, 99}, region \in {"south", "east"} :
          \E sustainability_preference \in {1, 10} :
             /\ Len(store) <= MaxStoredSession
             /\ Synthesize(farm_id, region, sustainability_preference, {})
    \/ \E input_data \in {i \in AdvisorInputs : i.farm_id # 0}, farm_rows \in ParcelTables :
          AdvisorQuery(input_data, farm_rows, farm_rows)
    \/ \E product \in QueryProducts : MarketQuery(product)
    \/ ResetDatabase
    \/ Discard

SessionSpec == WeatherInit /\ [][SessionNext]_vars

\* C21: a synthesize call leaves the market records the market engine holds
\* and the state map of each of the three engines as they were before the
\* call, whatever the engines processed before it.  (The parcel records and
\* the region and season tables are read through farm_table, regions and
\* seasons, which no step assigns.)
C21_SynthesizeLeavesEngines ==
    [][(last.op = "none" /\ last'.op = "synthesize")
           => (state' = state /\ market_data' = market_data)]_vars

\* a second synthesis has run its three engines on a system whose farming and
\* market engines each hold a processed input in their state map
C21_Witness ==
    /\ Synthesized
    /\ last.rngBefore > Seed42
    /\ "current_farm" \in DOMAIN state.farmer_advisor
    /\ "market_query" \in DOMAIN state.market_researcher
    /\ market_data = MarketTable


(***************************************************************************)
(* The three engine invocations of a synthesis, in any order.  What they   *)
(* share is the process-wide generator and the recommendations table.      *)
(***************************************************************************)
\* the orders the three invocations can be made in
EngineOrders ==
    { <<"farming", "market", "weather">>, <<"farming", "weather", "market">>,
      <<"market", "farming", "weather">>, <<"market", "weather", "farming">>,
      <<"weather", "farming", "market">>, <<"weather", "market", "farming">> }

\* what an engine returns when invoked with the generator at pos
engine_result(engine, farm_id, crop_type, region, sustainability_preference, pos, date, md) ==
    CASE engine = "farming" ->
             farmer_generate_recommendations(farm_id, sustainability_preference)
      [] engine = "market" ->
             market_generate_recommendations(farm_id, crop_type, md)
      [] engine = "weather" ->
             weather_generate_recommendations(farm_id, region, pos, date)

\* an invocation in which the farming engine too makes a draw
invoke_farming_draws(engine, shared, r) ==
    [pos     |-> IF engine = "weather" THEN r.pos
                 ELSE IF engine = "farming" THEN shared.pos + 1 ELSE shared.pos,
     rows    |-> shared.rows \o r.rows,
     results |-> (engine :> r) @@ shared.results]

\* self.agents[engine].generate_recommendations(context) returning r: the
\* generator moves only in the weather engine, each engine adds its rows to
\* the recommendations table
invoke(engine, shared, r) ==
    [pos     |-> IF engine = "weather" THEN r.pos ELSE shared.pos,
     rows    |-> shared.rows \o r.rows,
     results |-> (engine :> r) @@ shared.results]

RECURSIVE invoke_in_order(_, _, _, _, _, _, _, _, _)
\* the invocations order[i], order[i + 1], ... made one after the other
invoke_in_order(order, i, shared, farm_id, crop_type, region, sustainability_preference, date, md) ==
    IF i > Len(order)
    THEN shared
    ELSE invoke_in_order(order, i + 1,
                         invoke(order[i], shared,
                                engine_result(order[i], farm_id, crop_type, region,
                                              sustainability_preference, shared.pos, date, md)),
                         farm_id, crop_type, region, sustainability_preference, date, md)

\* the generator and the table rows before the first invocation of the
\* synthesis the caller holds the result of
SharedBefore == [pos |-> last.rngBefore, rows |-> << >>, results |-> [e \in {} |-> TRUE]]

\* C22: whatever the order the three engines of a synthesis are invoked in,
\* each returns the recommendation set it returned in the synthesis made, the
\* generator ends where it ended, and so the ranked actions are the same.
C22_EngineOrderInsensitive ==
    Synthesized =>
        \A order \in EngineOrders :
           \A out \in {invoke_in_order(order, 1, SharedBefore, last.farm_id,
                                       last.call.result.farm_data.crop_type, last.region,
                                       last.sustainability_preference, today, market_data)} :
              /\ out.results["farming"].recommendations
                     = last.call.result.farming_recommendations
              /\ out.results["market"].recommendations
                     = last.call.result.market_recommendations
              /\ out.results["weather"].recommendations
                     = last.call.result.weather_recommendations
              /\ Len(out.rows) = Len(last.call.rows)
              /\ Top5(SortByScore(HighPriority(out.results["farming"].recommendations,
                                               out.results["market"].recommendations,
                                               out.results["weather"].recommendations,
                                               last.sustainability_preference)))
                     = last.call.result.high_priority_actions

\* a synthesis in which each of the three engines returned at least one item
\* and the weather engine drew from a generator already advanced
C22_Witness ==
    /\ Synthesized
    /\ last.rngBefore > Seed42
    /\ CountRecs(last.call.result.farming_recommendations) > 0
    /\ CountRecs(last.call.result.market_recommendations) > 0
    /\ CountRecs(last.call.result.weather_recommendations) > 0


(***************************************************************************)
(* Two request threads inside WeatherStation.generate_forecast at once.    *)
(* The draws are calls of random.random() on the generator of the random   *)
(* module, which the threads share and the code does not guard: a thread   *)
(* can be preempted between any two draws.  The model lets a thread be     *)
(* preempted between the current weather and the loop and between two      *)
(* iterations of the loop.                                                 *)
(***************************************************************************)
\* a thread enters generate_forecast only while the generator has made at
\* most this many draws
MaxDrawnConcurrent == 120

\* the other of the two threads
Other(t) == CHOOSE u \in Threads : u # t

\* thread t enters generate_forecast(region, days) and generates the current
\* weather.  `base` is where the generator was when the first of the calls
\* that overlap was entered.
Enter(t, region, days) ==
    /\ last.op = "none"
    /\ running[t].at = "idle"
    /\ rng <= MaxDrawnConcurrent
    /\ \E current \in {generate_current_weather(region, rng, today)} :
          /\ rng' = current.pos
          /\ running' = [running EXCEPT ![t] =
                            [at |-> "loop", region |-> region, days |-> days, day |-> 1,
                             base |-> IF running[Other(t)].at = "idle" THEN rng
                                      ELSE running[Other(t)].base,
                             loop |-> LoopStart(current.pos)]]
    /\ seeded' = FALSE
    /\ UNCHANGED <<rng_absent, today, last, prev, store, market_data, use_llm, state>>

\* thread t runs one iteration of the loop, drawing from the generator as the
\* other thread left it, and returns the list after the last iteration
Iterate(t) ==
    /\ running[t].at = "loop"
    /\ \E r \in {ForecastDay(running[t].region, running[t].day, today,
                             [running[t].loop EXCEPT !.pos = rng])} :
          /\ rng' = r.pos
          /\ running' = [running EXCEPT ![t] =
                            [@ EXCEPT !.loop = r, !.day = @ + 1,
                                      !.at = IF running[t].day = running[t].days
                                             THEN "returned" ELSE "loop"]]
    /\ UNCHANGED <<rng_absent, today, seeded, last, prev, store, market_data, use_llm, state>>

\* the callers take the lists the two calls returned
Collect ==
    /\ \A t \in Threads : running[t].at = "returned"
    /\ running' = NoneRunning
    /\ UNCHANGED <<rng, rng_absent, today, seeded, last, prev, store, market_data, use_llm, state>>

\* the days two overlapping calls ask for
ConcurrentDays == {1, 2, 3}

ConcurrentNext ==
    \/ \E t \in Threads, region \in DOMAIN regions, days \in ConcurrentDays :
          Enter(t, region, days)
    \/ \E t \in Threads : Iterate(t)
    \/ Collect

ConcurrentSpec == WeatherInit /\ [][ConcurrentNext]_vars

\* the lists the calls of threads t and u return when t's call is made from
\* the generator at base and u's call after it
Serially(t, u, base) ==
    LET ft == generate_forecast(running[t].region, running[t].days, base, today, 0)
        fu == generate_forecast(running[u].region, running[u].days, ft.pos, today, 0)
    IN  (t :> ft.forecast) @@ (u :> fu.forecast)

\* both calls have returned
BothReturned == \A t \in Threads : running[t].at = "returned"

\* the lists the two calls returned
Returned == [t \in Threads |-> running[t].loop.forecast]

\* C23 as stated: when two forecast calls that shared the generator have both
\* returned, the lists they returned are those of making the two calls one
\* after the other, in one order or the other.
C23_ConcurrentCallsSerialize ==
    BothReturned =>
        \E t \in Threads : Returned = Serially(t, Other(t), running[t].base)


\* C24 as stated: the impact assessment of an empty forecast, which a weather
\* query for no days makes, has overall impact "unknown" and no
\* recommendation, and the query does not fail.
C24_EmptyForecastImpactUnknown ==
    ( last.op = "weather" /\ last.region \in DOMAIN regions /\ last.forecast_days <= 0 )
       => /\ last.result.status = "success"
          /\ last.result.forecast = << >>
          /\ last.result.agricultural_impact.overall_impact = "unknown"
          /\ last.result.agricultural_impact.recommendations = << >>


\* the row of the farm_data table that the call the caller holds the result of
\* asked about, if the table has one
RowAsked == SelectSeq(last.table, LAMBDA farm : farm.farm_id = last.input_data.farm_id)

\* the advisor was asked about a farm of the table whose crop none of the rows
\* it loaded grows
NoneGrowsTheCrop ==
    /\ last.op = "analyze"
    /\ last.input_data.farm_id # 0
    /\ RowAsked # << >>
    /\ SimilarFarms(last.farm_rows, RowAsked[1].crop_type) = << >>

\* C25: when none of the rows the advisor loaded has the crop of the farm
\* analysed, the practice analysis is the result tagged insufficient_data and
\* the analysis is returned all the same, with the soil analysis, the climate
\* analysis and an overall assessment whose high-priority list is taken from
\* the soil and climate recommendations alone.
C25_NoBenchmarkStillAnalysed ==
    NoneGrowsTheCrop =>
        \A row \in {RowAsked[1]} :
           /\ last.result.status = "success"
           /\ \A analysis \in {last.result.analysis} :
                 /\ analysis.practice_analysis.status = "insufficient_data"
                 /\ "recommendations" \notin DOMAIN analysis.practice_analysis
                 /\ analysis.soil_analysis
                        = analyze_soil_data(<<row.soil_ph>>, <<row.soil_moisture>>)
                 /\ analysis.climate_analysis
                        = analyze_climate_data(<<row.temperature_c>>, <<row.rainfall_mm>>)
                 /\ analysis.overall_assessment.high_priority_recommendations
                        = TopThreeByImpact(analysis.soil_analysis.recommendations
                                              \o analysis.climate_analysis.recommendations)
                 /\ analysis.overall_assessment.sustainability_category
                        = sustainability_category(row.sustainability_score).sustainability_category

\* such an analysis, of a farm with soil and climate recommendations
C25_Witness ==
    /\ NoneGrowsTheCrop
    /\ last.result.analysis.practice_analysis.status = "insufficient_data"
    /\ last.result.analysis.soil_analysis.recommendations # << >>
    /\ last.result.analysis.climate_analysis.recommendations # << >>
    /\ Len(last.result.analysis.overall_assessment.high_priority_recommendations) = 3


\* the soil, climate and practice recommendations of an analysis, merged in
\* that order; an analysis without a benchmark has no practice recommendation
Merged(analysis) ==
    analysis.soil_analysis.recommendations \o analysis.climate_analysis.recommendations
       \o (IF "recommendations" \in DOMAIN analysis.practice_analysis
           THEN analysis.practice_analysis.recommendations ELSE << >>)

\* an existing farm has been analysed
FarmAnalysed == Analysed /\ last.input_data.farm_id # 0

\* C26: the high-priority list of an overall assessment holds the three first
\* (all, when there are fewer) of the merged soil, climate and practice
\* recommendations, non-increasing by sustainability_impact, and no merged
\* item left out has a greater sustainability_impact than one kept; the farm
\* is "poor" with potential "high" below 30, "moderate" with "medium" from 30
\* to below 60, "good" with "low" from 60.
C26_HighPriorityTopThree ==
    FarmAnalysed =>
        \A merged \in {Merged(last.result.analysis)} :
        \A overall \in {last.result.analysis.overall_assessment} :
        \A kept \in {last.result.analysis.overall_assessment.high_priority_recommendations} :
        \A score \in {last.result.analysis.sustainability_score} :
           /\ Len(kept) = Min(3, Len(merged))
           /\ \A k \in DOMAIN kept : \E i \in DOMAIN merged : merged[i] = kept[k]
           /\ \A k \in 1..(Len(kept) - 1) :
                 kept[k].sustainability_impact >= kept[k + 1].sustainability_impact
           /\ \A i \in DOMAIN merged :
                 (\A k \in DOMAIN kept : kept[k] # merged[i])
                    => \A k \in DOMAIN kept :
                          merged[i].sustainability_impact <= kept[k].sustainability_impact
           /\ score < 30000
                 => overall.sustainability_category = "poor"
                    /\ overall.improvement_potential = "high"
           /\ (30000 <= score /\ score < 60000)
                 => overall.sustainability_category = "moderate"
                    /\ overall.improvement_potential = "medium"
           /\ score >= 60000
                 => overall.sustainability_category = "good"
                    /\ overall.improvement_potential = "low"

\* an assessment that leaves merged recommendations out, and keeps one that
\* was merged after an item of smaller impact
C26_Witness ==
    /\ FarmAnalysed
    /\ Len(Merged(last.result.analysis)) > 3
    /\ \E i, j \in DOMAIN Merged(last.result.analysis) :
          /\ i < j
          /\ Merged(last.result.analysis)[i].sustainability_impact
                < Merged(last.result.analysis)[j].sustainability_impact
          /\ last.result.analysis.overall_assessment.high_priority_recommendations[1]
                = Merged(last.result.analysis)[j]
    /\ last.result.analysis.sustainability_score < 30000
    /\ last.result.analysis.overall_assessment.sustainability_category = "poor"


(***************************************************************************)
(* The iteration a thread has just run: the sample it appended and the     *)
(* locals it was computed from.                                            *)
(***************************************************************************)
\* thread t is inside generate_forecast, or back from it, and has run an
\* iteration of the loop
Iterated(t) == running[t].at # "idle" /\ running[t].loop.forecast # << >>

\* the sample the iteration appended
Sample(t) == running[t].loop.forecast[Len(running[t].loop.forecast)]

\* the high and low temperature of a sample whose temperature is that derived
\* from the trend, raised by `raised`
HighLow(derived, raised) ==
    << Round1(derived.temperature + raised + derived.temp_variation \div 2),
       Round1(derived.temperature + raised - derived.temp_variation \div 2) >>

\* C27 as stated: on a day whose drought or flood roll triggers the tag is
\* forced, the rainfall is the extreme value and the temperature is not the
\* one derived from the trend; the ladder decides the tag on the other days.
C27_ExtremeEventsOverrideBoth ==
    \A t \in Threads :
       Iterated(t) =>
          \A loop \in {running[t].loop}, sample \in {Sample(t)} :
          \A params \in {regions[running[t].region]} :
             /\ loop.rolls.drought
                   => /\ sample.condition = "Drought Conditions"
                      /\ sample.rainfall_mm = 0
                      /\ <<sample.temperature_high_c, sample.temperature_low_c>>
                            # HighLow(loop.derived, 0)
             /\ loop.rolls.flood
                   => /\ sample.condition = "Flood Warning"
                      /\ sample.rainfall_mm = 20 * params.rainfall_variation
                      /\ <<sample.temperature_high_c, sample.temperature_low_c>>
                            # HighLow(loop.derived, 0)
             /\ (~loop.rolls.drought /\ ~loop.rolls.flood)
                   => sample.condition
                         = ConditionLadder(params, loop.derived.rainfall,
                                           loop.derived.temperature)

\* C27, amended: on a day whose drought roll triggers the rainfall is 0, the
\* temperature is the one derived from the trend raised by 3 degrees and the
\* tag is "Drought Conditions"; the flood roll is made when the drought roll
\* does not trigger, and when it triggers the rainfall is twice the region's
\* rainfall variation, the temperature is left as derived from the trend and
\* the tag is "Flood Warning"; on the other days the ladder gives the tag from
\* the rainfall and temperature derived from the trends.
C27_ExtremeEventsForceTag ==
    \A t \in Threads :
       Iterated(t) =>
          \A loop \in {running[t].loop}, sample \in {Sample(t)} :
          \A params \in {regions[running[t].region]} :
             /\ ~(loop.rolls.drought /\ loop.rolls.flood)
             /\ loop.rolls.drought
                   => /\ sample.condition = "Drought Conditions"
                      /\ sample.rainfall_mm = 0
                      /\ <<sample.temperature_high_c, sample.temperature_low_c>>
                            = HighLow(loop.derived, 3000)
             /\ loop.rolls.flood
                   => /\ sample.condition = "Flood Warning"
                      /\ sample.rainfall_mm = 20 * params.rainfall_variation
                      /\ <<sample.temperature_high_c, sample.temperature_low_c>>
                            = HighLow(loop.derived, 0)
             /\ (~loop.rolls.drought /\ ~loop.rolls.flood)
                   => /\ sample.condition
                            = ConditionLadder(params, loop.derived.rainfall,
                                              loop.derived.temperature)
                      /\ sample.rainfall_mm = Round1(loop.derived.rainfall)
                      /\ <<sample.temperature_high_c, sample.temperature_low_c>>
                            = HighLow(loop.derived, 0)

\* one thread has just run a day of flood whose rainfall derived from the
\* trend the ladder would not have tagged as rain, the other a day of drought
C27_Witness ==
    \E t \in Threads :
       /\ Iterated(t) /\ Iterated(Other(t))
       /\ running[t].loop.rolls.flood
       /\ Sample(t).condition = "Flood Warning"
       /\ running[t].loop.derived.rainfall
             <= 500 * regions[running[t].region].rainfall_variation
       /\ running[Other(t)].loop.rolls.drought
       /\ Sample(Other(t)).condition = "Drought Conditions"


\* C28: after every iteration of the loop of a forecast the temperature trend
\* and the rainfall trend are within [-1, 1], and the sample appended has
\* rainfall >= 0 and a high temperature that is at least the low temperature.
C28_TrendsAndSamplesBounded ==
    \A t \in Threads :
       Iterated(t) =>
          /\ -1000 <= running[t].loop.temp_trend /\ running[t].loop.temp_trend <= 1000
          /\ -1000 <= running[t].loop.rain_trend /\ running[t].loop.rain_trend <= 1000
          /\ \A k \in DOMAIN running[t].loop.forecast :
                /\ running[t].loop.forecast[k].rainfall_mm >= 0
                /\ running[t].loop.forecast[k].temperature_high_c
                      >= running[t].loop.forecast[k].temperature_low_c

\* a thread in the third iteration of its loop, the trends carried over from
\* the days before: the rainfall trend is negative enough for max(0, ...) to
\* cut the rainfall to 0 on a day without drought
C28_Witness ==
    \E t \in Threads :
       /\ Iterated(t)
       /\ Len(running[t].loop.forecast) = 3
       /\ running[t].loop.temp_trend # 0
       /\ running[t].loop.rain_trend < -500
       /\ ~running[t].loop.rolls.drought
       /\ running[t].loop.derived.rainfall = 0
       /\ Sample(t).rainfall_mm = 0


\* the entries of a scored list that have a score above 0
Positive(scored) == {i \in DOMAIN scored : FloatLt(Fin(0), scored[i].score)}

\* C29 as stated: the market items are scored with sustainability_impact 0
\* and the weather items with economic_impact 0; in a synthesis made with
\* preference 10 every Market Strategy item has score 0, and one of them is
\* among the ranked actions only when fewer than 5 items have a positive
\* score.
C29_MarketItemsScoreZero ==
    Synthesized =>
        \A scored \in {last.call.scored}, top \in {last.call.result.high_priority_actions} :
           /\ \A i \in DOMAIN scored :
                 /\ scored[i].category = "Market Strategy"
                       => scored[i].sustainability_impact = 0
                 /\ scored[i].category = "Weather Management"
                       => scored[i].economic_impact = Fin(0)
           /\ last.sustainability_preference = 10
                 => /\ \A i \in DOMAIN scored :
                          scored[i].category = "Market Strategy"
                             => scored[i].score = Fin(0)
                    /\ (\E k \in DOMAIN top : top[k].category = "Market Strategy")
                          => Cardinality(Positive(scored)) < 5

\* the items the three engines returned to the synthesis, engine by engine in
\* the order the engines are invoked
ReturnedItems ==
    Flatten(last.call.result.farming_recommendations)
        \o Flatten(last.call.result.market_recommendations)
        \o Flatten(last.call.result.weather_recommendations)

\* C30: after a synthesis for an existing parcel and a known region the
\* recommendations table is the table before the call followed by one row for
\* each item the farming, market and weather engines returned, in that order,
\* each row with the parcel, the category and the action of its item; no row
\* the table held is removed or rewritten, and rows equal to rows already
\* held are added again
C30_SynthesisAppendsEveryItem ==
    (Synthesized /\ last.call.status = "returned" /\ last.region \in DOMAIN regions) =>
        \A emitted \in {ReturnedItems} :
            /\ Len(store) = Len(last.storeBefore) + Len(emitted)
            /\ SubSeq(store, 1, Len(last.storeBefore)) = last.storeBefore
            /\ \A i \in 1..Len(emitted) :
                  \A row \in {store[Len(last.storeBefore) + i]} :
                      /\ row.farm_id = last.farm_id
                      /\ row.recommendation_type = emitted[i].category
                      /\ row.recommendation_text = emitted[i].rec.action

\* a synthesis was repeated on a table that held the rows of an earlier one:
\* more items than five were returned, and the first row added is equal to
\* the first row the table already held
C30_Witness ==
    /\ Synthesized
    /\ last.region \in DOMAIN regions
    /\ last.storeBefore # << >>
    /\ Len(ReturnedItems) > 5
    /\ Len(store) = Len(last.storeBefore) + Len(ReturnedItems)
    /\ store[Len(last.storeBefore) + 1] = last.storeBefore[1]

====
